---- MODULE Spec2Model ----
(***************************************************************************)
(* Model of the SHEIN_SEN automation core: the Playwright bot of           *)
(* shein_bot.py (fallback chains, add_product_to_cart, the batch loop of   *)
(* process_pending_orders, run_shein_bot), the order store of              *)
(* data_manager.py as the bot uses it, and the two orchestrator paths of   *)
(* main.py that reach the bot (add_to_cart_async, process_pending_orders). *)
(*                                                                         *)
(* A page is described by a fixture: for every selector of a chain, the    *)
(* element that selector targets on the page (or no element).  French      *)
(* message texts are written without accents.                              *)
(***************************************************************************)
EXTENDS Integers, Sequences, FiniteSets, TLC

(***************************************************************************)
(* Bounds of the model.                                                    *)
(***************************************************************************)
MaxOrders == 2        \* rows of the orders sheet
MaxPresent == 2       \* elements present on one page fixture
MaxStepQty == 3       \* largest quantity handed to _set_quantity on its own
MaxRuns == 2          \* successive batch runs over one sheet

AccAlways == MaxStepQty   \* an element that accepts every click of one attempt

(***************************************************************************)
(* Page elements.  present: the base selector finds the element, visible.  *)
(* attr: value of its disabled attribute as get_attribute returns it       *)
(* ("none" = None, "empty" = '' for a bare attribute, "set" = a non-empty  *)
(* value).  cls: its class contains "disabled".  txt: its title, alt or    *)
(* text contains the requested token.  acc: number of click() calls on it  *)
(* that succeed before click() raises.                                     *)
(***************************************************************************)
Absent == [present |-> FALSE, attr |-> "none", cls |-> FALSE, txt |-> FALSE, acc |-> 0]

PresenceKinds == {[present |-> TRUE, attr |-> "none", cls |-> FALSE, txt |-> TRUE, acc |-> AccAlways]}

ControlKinds ==
    {[present |-> TRUE, attr |-> a, cls |-> c, txt |-> TRUE, acc |-> k] :
        a \in {"none", "empty", "set"}, c \in BOOLEAN, k \in {0, AccAlways}}

\* what every slot outside S holds: nothing, or one clickable control that
\* is disabled either by attribute or by class
CommonControls ==
    {Absent} \cup {e \in ControlKinds : e.acc = AccAlways /\ (e.attr # "none") # e.cls}

SwatchKinds ==
    {[present |-> TRUE, attr |-> "none", cls |-> FALSE, txt |-> t, acc |-> k] :
        t \in BOOLEAN, k \in {0, AccAlways}}

InputKinds ==
    {[present |-> TRUE, attr |-> "none", cls |-> FALSE, txt |-> TRUE, acc |-> k] :
        k \in {0, AccAlways}}

StepperKinds ==
    {[present |-> TRUE, attr |-> "none", cls |-> FALSE, txt |-> TRUE, acc |-> k] :
        k \in 0 .. AccAlways}

\* A page fixture over n selector slots: the slots of S hold elements of their
\* own (f), every other slot holds the page's common element b (Absent: the
\* other selectors find nothing).  At most MaxPresent slots are in S.
SlotSets(n) == {T \in SUBSET (1 .. n) : Cardinality(T) <= MaxPresent}

Fixture(n, S, f, b) == [i \in 1 .. n |-> IF i \in S THEN f[i] ELSE b]

\* the results of Op over every fixture of n slots
ResultsOver(n, Kinds, Common, Op(_)) ==
    UNION { { Op(Fixture(n, S, f, b)) : f \in [S -> Kinds], b \in Common } : S \in SlotSets(n) }

(***************************************************************************)
(* The selector lists of shein_bot.py.  notCls / notAttr record the        *)
(* :not([class*="disabled"]) / :not(.disabled) and :not([disabled])        *)
(* filters a selector carries, button that it matches <button> elements    *)
(* only.                                                                   *)
(***************************************************************************)
product_indicators ==
    << "[data-testid=product-title]", ".product-intro__head-name", ".goods-title",
       "h1[class*=product]", ".product-name" >>

size_selectors ==
    << [sel |-> "[data-testid=size-T]",
        button |-> FALSE, notCls |-> FALSE, notAttr |-> FALSE],
       [sel |-> "button[title=T]",
        button |-> TRUE,  notCls |-> FALSE, notAttr |-> FALSE],
       [sel |-> "span:has-text(T):not([class*=disabled])",
        button |-> FALSE, notCls |-> TRUE,  notAttr |-> FALSE],
       [sel |-> ".size-item:has-text(T):not(.disabled)",
        button |-> FALSE, notCls |-> TRUE,  notAttr |-> FALSE],
       [sel |-> "[class*=size]:has-text(T):not([class*=disabled])",
        button |-> FALSE, notCls |-> TRUE,  notAttr |-> FALSE],
       [sel |-> "button:has-text(T):not([disabled])",
        button |-> TRUE,  notCls |-> FALSE, notAttr |-> TRUE] >>

color_selectors ==
    << "[data-testid=color-T]", "[title*=T]", "[alt*=T]", ".color-item:has-text(T)",
       "[class*=color], [data-testid*=color], [class*=swatch]" >>

qty_selectors ==
    << "[data-testid=quantity-input]", "input[name=quantity]", "input[class*=quantity]",
       ".quantity-input input", "[class*=qty] input" >>

plus_button_selectors ==
    << "[data-testid=quantity-plus]", "button[class*=plus]", "button:has-text(+)", ".quantity-plus" >>

add_to_cart_selectors ==
    << [sel |-> "[data-testid=add-to-cart]",          button |-> FALSE],
       [sel |-> "button:has-text(Ajouter au panier)", button |-> TRUE],
       [sel |-> "button:has-text(Add to cart)",       button |-> TRUE],
       [sel |-> "button:has-text(AJOUTER)",           button |-> TRUE],
       [sel |-> ".add-to-cart-btn",                   button |-> FALSE],
       [sel |-> "[class*=add-cart]",                  button |-> FALSE],
       [sel |-> "button[class*=cart]",                button |-> TRUE] >>

success_indicators ==
    << "text=Ajoute au panier", "text=Added to cart", "text=Produit ajoute",
       "[data-testid=cart-success]", ".success-message", "[class*=success]" >>

modal_selectors == << "[role=dialog]", ".modal", ".popup", "[class*=overlay]" >>

\* slot Len(size_selectors)+1 of a size fixture: an element that only the broad
\* query of the alternative method returns
SizeSlots == Len(size_selectors) + 1

(***************************************************************************)
(* Playwright calls on an element of the fixture.                          *)
(***************************************************************************)
\* page.wait_for_selector(selector, timeout): the element, or a timeout
wait_for_selector(e, notCls, notAttr) ==
    e.present /\ (notCls => ~e.cls) /\ (notAttr => e.attr = "none")

\* element.click() returns (TRUE) or raises (FALSE).  Before it dispatches
\* the click Playwright waits for the element to be enabled: a <button> that
\* carries the disabled attribute never is, and the call times out.
click(e, button) == e.acc >= 1 /\ (button => e.attr = "none")

\* Python truth value of get_attribute('disabled'): None and '' are falsy
is_disabled(e) == e.attr = "set"

(***************************************************************************)
(* The fallback chains.  A result records ok (the method's return value),  *)
(* tried (the selectors waited on, in order) and clicks (the slots of the  *)
(* elements on which a click was dispatched, in order).                    *)
(***************************************************************************)
RECURSIVE valid_loop(_, _, _)
valid_loop(fx, i, tried) ==
    IF i > Len(product_indicators) THEN [ok |-> FALSE, tried |-> tried, clicks |-> <<>>]
    ELSE IF wait_for_selector(fx[i], FALSE, FALSE)
         THEN [ok |-> TRUE, tried |-> Append(tried, i), clicks |-> <<>>]
         ELSE valid_loop(fx, i + 1, Append(tried, i))

\* urlOk: '/item' in current_url or '/product' in current_url
_is_valid_product_page(fx, urlOk) ==
    LET r == valid_loop(fx, 1, <<>>)
    IN  IF r.ok THEN r ELSE [r EXCEPT !.ok = urlOk]

RECURSIVE size_loop(_, _, _)
size_loop(fx, i, tried) ==
    IF i > Len(size_selectors) THEN [ok |-> FALSE, tried |-> tried, clicks |-> <<>>]
    ELSE IF /\ wait_for_selector(fx[i], size_selectors[i].notCls, size_selectors[i].notAttr)
            /\ click(fx[i], size_selectors[i].button)
         THEN [ok |-> TRUE, tried |-> Append(tried, i), clicks |-> <<i>>]
         ELSE size_loop(fx, i + 1, Append(tried, i))

\* the alternative method: every element of the broad query, in page order
RECURSIVE size_scan(_, _)
size_scan(fx, i) ==
    IF i > SizeSlots THEN [ok |-> FALSE, clicks |-> <<>>]
    ELSE IF /\ fx[i].present /\ fx[i].txt
            /\ ~is_disabled(fx[i]) /\ ~fx[i].cls
            /\ click(fx[i], i <= Len(size_selectors) /\ size_selectors[i].button)
         THEN [ok |-> TRUE, clicks |-> <<i>>]
         ELSE size_scan(fx, i + 1)

_select_size(fx) ==
    LET r == size_loop(fx, 1, <<>>)
        a == size_scan(fx, 1)
    IN  IF r.ok THEN r ELSE [ok |-> a.ok, tried |-> r.tried, clicks |-> a.clicks]

RECURSIVE color_loop(_, _, _)
color_loop(fx, i, tried) ==
    IF i > Len(color_selectors) THEN [ok |-> FALSE, tried |-> tried, clicks |-> <<>>]
    ELSE IF fx[i].present /\ fx[i].txt /\ click(fx[i], FALSE)
         THEN [ok |-> TRUE, tried |-> Append(tried, i), clicks |-> <<i>>]
         ELSE color_loop(fx, i + 1, Append(tried, i))

_select_color(fx) == color_loop(fx, 1, <<>>)

\* typed: the quantity typed into an input (0 = none); plus: clicks dispatched
\* on increment controls
RECURSIVE qty_loop(_, _, _)
qty_loop(fx, i, quantity) ==
    IF i > Len(qty_selectors) THEN [ok |-> FALSE, typed |-> 0]
    ELSE IF wait_for_selector(fx[i], FALSE, FALSE) /\ click(fx[i], FALSE)
         THEN [ok |-> TRUE, typed |-> quantity]
         ELSE qty_loop(fx, i + 1, quantity)

RECURSIVE plus_loop(_, _, _, _)
plus_loop(fx, i, quantity, done) ==
    IF i > Len(plus_button_selectors) THEN [ok |-> FALSE, plus |-> done]
    ELSE IF ~wait_for_selector(fx[i], FALSE, FALSE) THEN plus_loop(fx, i + 1, quantity, done)
         ELSE IF fx[i].acc >= quantity - 1
              THEN [ok |-> TRUE, plus |-> done + (quantity - 1)]
              ELSE plus_loop(fx, i + 1, quantity, done + fx[i].acc)

_set_quantity(fq, fp, quantity) ==
    LET q == qty_loop(fq, 1, quantity)
        p == plus_loop(fp, 1, quantity, 0)
    IN  IF q.ok THEN [ok |-> TRUE, typed |-> q.typed, plus |-> 0]
        ELSE [ok |-> p.ok, typed |-> 0, plus |-> p.plus]

RECURSIVE cart_loop(_, _, _)
cart_loop(fx, i, tried) ==
    IF i > Len(add_to_cart_selectors) THEN [ok |-> FALSE, tried |-> tried, clicks |-> <<>>]
    ELSE IF /\ wait_for_selector(fx[i], FALSE, FALSE)
            /\ ~is_disabled(fx[i])
            /\ click(fx[i], add_to_cart_selectors[i].button)
         THEN [ok |-> TRUE, tried |-> Append(tried, i), clicks |-> <<i>>]
         ELSE cart_loop(fx, i + 1, Append(tried, i))

_click_add_to_cart(fx) == cart_loop(fx, 1, <<>>)

AnyPresent(fx) == \E i \in DOMAIN fx : fx[i].present

\* _confirm_cart_addition that answers True only on the cart modal
_confirm_cart_addition_modal(fs, fm) ==
    [ok |-> AnyPresent(fm),
     tier |-> IF AnyPresent(fs) THEN "explicit" ELSE IF AnyPresent(fm) THEN "modal" ELSE "default"]

\* always True; tier names the rule that answered
_confirm_cart_addition(fs, fm) ==
    [ok |-> TRUE,
     tier |-> IF AnyPresent(fs) THEN "explicit" ELSE IF AnyPresent(fm) THEN "modal" ELSE "default"]

(***************************************************************************)
(* What one step of add_product_to_cart keeps of a chain's result.  The    *)
(* sets of outcomes range over every fixture of the chain.                 *)
(***************************************************************************)
\* the quantities of the orders of a batch: one for which add_product_to_cart
\* skips the quantity step (quantity > 1 is false) and one for which it runs
Quantities == {1, 2}

EmptyFixture(n) == [i \in 1 .. n |-> Absent]

\* a float NaN: what pandas.read_excel returns for an empty cell; truthy
NaN == "nan"

\* _select_size on the token read from the store: on NaN the candidate loop
\* formats "nan" into the selectors, and target_size.upper() raises for every
\* element of the alternative method
SizeSummary(size, fx) ==
    LET r == IF size = NaN THEN size_loop(fx, 1, <<>>) ELSE _select_size(fx)
    IN  [ok |-> r.ok, clicks |-> Len(r.clicks)]

\* _select_color on the token read from the store: target_color.lower()
\* raises on NaN and the method returns False
ColorSummary(color, fx) ==
    IF color = NaN THEN [ok |-> FALSE, clicks |-> 0]
    ELSE [ok |-> _select_color(fx).ok, clicks |-> Len(_select_color(fx).clicks)]

Disabled(e) == e.present /\ e.attr # "none"

CartSummary(fx) ==
    LET r == _click_add_to_cart(fx)
    IN  [ok |-> r.ok,
         clicks |-> Len(r.clicks),
         clickedDisabled |-> \E k \in 1 .. Len(r.clicks) : Disabled(fx[r.clicks[k]]),
         allDisabled |-> AnyPresent(fx) /\ \A i \in DOMAIN fx : fx[i].present => Disabled(fx[i])]

\* how _is_valid_product_page answered: by an indicator, by the URL, or False
ValidSummary(fx, urlOk) ==
    IF ~_is_valid_product_page(fx, urlOk).ok THEN "fail"
    ELSE IF valid_loop(fx, 1, <<>>).ok THEN "indicator" ELSE "url"

ValidOutcomes ==
    UNION { ResultsOver(Len(product_indicators), PresenceKinds, {Absent},
                        LAMBDA fx : ValidSummary(fx, u)) : u \in BOOLEAN }
SizeOutcomes ==
    LET both == ResultsOver(SizeSlots, ControlKinds, CommonControls,
                            LAMBDA fx : [t \in {"M", NaN} |-> SizeSummary(t, fx)])
    IN  [t \in {"M", NaN} |-> {r[t] : r \in both}]
ColorOutcomes ==
    [t \in {"Red", NaN} |->
        ResultsOver(Len(color_selectors), SwatchKinds, {Absent}, LAMBDA fx : ColorSummary(t, fx))]
QtyOutcomes ==
    [n \in {q \in Quantities : q > 1} |->
        UNION ResultsOver(Len(qty_selectors), InputKinds, {Absent},
                LAMBDA fq : ResultsOver(Len(plus_button_selectors), StepperKinds, {Absent},
                                LAMBDA fp : _set_quantity(fq, fp, n)))]
CartOutcomes ==
    ResultsOver(Len(add_to_cart_selectors), ControlKinds, CommonControls, CartSummary)
ConfirmOutcomes ==
    UNION ResultsOver(Len(success_indicators), PresenceKinds, {Absent},
            LAMBDA fs : ResultsOver(Len(modal_selectors), PresenceKinds, {Absent},
                            LAMBDA fm : _confirm_cart_addition(fs, fm)))

(***************************************************************************)
(* Messages: a text is the sequence of the parts an f-string joins.        *)
(***************************************************************************)
MsgInvalid == << "Page produit invalide ou produit non trouve" >>
MsgSize(size) == << "Taille '", size, "' non trouvee ou non selectionnable" >>
MsgCart == << "Echec ajout au panier - bouton non trouve ou non cliquable" >>
MsgUnconfirmed == << "Ajout au panier non confirme" >>
MsgSuccess == << "Produit ajoute avec succes" >>
MsgError(e) == << "Erreur ajout produit: ", e >>
NoteCompleted == << "Ajoute automatiquement au panier" >>
NoteFailed(message) == << "Erreur: " >> \o message

(***************************************************************************)
(* The order store (sheet 'Commandes').                                    *)
(***************************************************************************)
\* get_all_orders that ignores its status argument
get_all_orders_unfiltered(rows, status) == rows

\* DataManager.get_all_orders(status): the rows, in sheet order
get_all_orders(rows, status) == SelectSeq(rows, LAMBDA r : status = "" \/ r.status = status)

\* update_order_status without the order_id mask
update_order_status_all(rows, order_id, status, notes) ==
    [i \in DOMAIN rows |->
        [rows[i] EXCEPT !.status = status,
                        !.processed_at = "now",
                        !.notes = IF notes # <<>> THEN notes ELSE @]]

\* update_order_status that writes back the masked rows only
update_order_status_masked(rows, order_id, status, notes) ==
    LET hit == SelectSeq(rows, LAMBDA r : r.order_id = order_id)
    IN  [i \in DOMAIN hit |->
            [hit[i] EXCEPT !.status = status,
                           !.processed_at = "now",
                           !.notes = IF notes # <<>> THEN notes ELSE @]]

\* DataManager.update_order_status: every row with this order_id
update_order_status(rows, order_id, status, notes) ==
    [i \in DOMAIN rows |->
        IF rows[i].order_id = order_id
        THEN [rows[i] EXCEPT !.status = status,
                             !.processed_at = "now",
                             !.notes = IF notes # <<>> THEN notes ELSE @]
        ELSE rows[i]]

(***************************************************************************)
(* The session store: the cookie file and the JSON text written to it.     *)
(* A cookie is what context.cookies() reports of it; a browsing context    *)
(* holds at most one cookie per (name, domain).  A JSON text is the        *)
(* sequence of the chunks json.dump writes: "[", one object per cookie,    *)
(* "]".                                                                    *)
(***************************************************************************)
Cookies ==
    { [name |-> "sessionid", value |-> "s1", domain |-> ".shein.com"],
      [name |-> "sessionid", value |-> "s2", domain |-> ".shein.com"],
      [name |-> "cart_id", value |-> "c1", domain |-> "www.shein.com"] }

Jars ==
    { J \in SUBSET Cookies :
        \A a, b \in J : (a.name = b.name /\ a.domain = b.domain) => a = b }

NoCookie == [name |-> "", value |-> "", domain |-> ""]

Chunk(t, c) == [t |-> t, c |-> c]

\* context.cookies(): the cookies of the context, as a list
RECURSIVE cookies_list(_)
cookies_list(J) ==
    IF J = {} THEN <<>>
    ELSE LET c == CHOOSE x \in J : TRUE IN << c >> \o cookies_list(J \ {c})

\* json.dump(cookies, f, indent=2): the text, chunk by chunk
json_dump(cookies) ==
    << Chunk("[", NoCookie) >>
       \o [i \in 1 .. Len(cookies) |-> Chunk("obj", cookies[i])]
       \o << Chunk("]", NoCookie) >>

\* json.load(f): the list of a complete text; a text that is empty or cut
\* short raises JSONDecodeError
json_load(text) ==
    IF /\ Len(text) >= 2
       /\ text[1].t = "["
       /\ text[Len(text)].t = "]"
       /\ \A i \in 2 .. Len(text) - 1 : text[i].t = "obj"
    THEN [ok |-> TRUE, value |-> [i \in 1 .. Len(text) - 2 |-> text[i + 1].c]]
    ELSE [ok |-> FALSE, value |-> <<>>]

NoFile == [exists |-> FALSE, text |-> <<>>]

FileOf(text) == [exists |-> TRUE, text |-> text]

(***************************************************************************)
(* check_login_status: the indicators looked up on the home page.          *)
(***************************************************************************)
login_indicators ==
    << "[data-testid=user-menu]", ".user-info", "[class*=user][class*=avatar]",
       "text=Mon compte", "text=Profil" >>

RECURSIVE login_loop(_, _)
login_loop(fx, i) ==
    IF i > Len(login_indicators) THEN FALSE
    ELSE IF wait_for_selector(fx[i], FALSE, FALSE) THEN TRUE
         ELSE login_loop(fx, i + 1)

\* err: page.goto raised; loginUrl: 'login' in current_url.lower()
login_status(fx, loginUrl, err) ==
    IF err THEN FALSE
    ELSE IF login_loop(fx, 1) THEN TRUE
    ELSE IF loginUrl THEN FALSE
    ELSE FALSE

(***************************************************************************)
(* The intake of an order.  A URL is its scheme, the labels of its host    *)
(* and the segments of its path; its text is what the substring and regex  *)
(* tests of ai_processor.py look at.                                       *)
(***************************************************************************)
None == "None"

Url(scheme, host, path) == [scheme |-> scheme, host |-> host, path |-> path]

\* no URL: product_url None
NoUrl == Url("None", <<>>, <<>>)

Urls ==
    { Url("https", << "www", "shein", "com" >>, << "fr", "item12345" >>),
      Url("https", << "fr", "shein", "com" >>, << "item12345" >>),
      Url("", << "www", "shein", "com" >>, << "fr", "item12345" >>),
      Url("https", << "example", "com" >>, <<>>),
      Url("https", << "example", "com" >>, << "shein.com", "item12345" >>),
      Url("https", << "shein", "com", "evil", "net" >>, << "item12345" >>),
      Url("https", << "evilshein", "com" >>, << "item12345" >>) }

Phones == {"+221701234567", "+221770000000"}

\* the host is shein.com or one of its subdomains
IsStorefront(u) ==
    /\ Len(u.host) >= 2
    /\ u.host[Len(u.host) - 1] = "shein"
    /\ u.host[Len(u.host)] = "com"

\* the label ends with the letters "shein"
EndsWithShein(label) == label \in {"shein", "evilshein"}

\* 'shein.com' in url.lower()
contains_shein_com(u) ==
    \/ \E i \in 1 .. Len(u.host) - 1 : EndsWithShein(u.host[i]) /\ u.host[i + 1] = "com"
    \/ \E j \in DOMAIN u.path : u.path[j] = "shein.com"

\* validators.url(url)
validators_url(u) == u.scheme \in {"http", "https"} /\ Len(u.host) >= 2

\* re.search(r'https?://(?:www\.)?shein\.com/[^\s]+', message)
url_pattern(u) ==
    /\ u.scheme \in {"http", "https"}
    /\ u.host \in {<< "shein", "com" >>, << "www", "shein", "com" >>}
    /\ u.path # <<>>

\* _validate_and_clean, lines 212-216: the product_url of the result
_validate_and_clean(url) ==
    IF url # NoUrl /\ validators_url(url) /\ contains_shein_com(url) THEN url ELSE NoUrl

\* extract_product_info: the URL found by the regex, else the one the AI
\* answered (ai: a URL or NoUrl); NoUrl when there is no product URL
extract_product_info(url, ai) ==
    LET found == IF url_pattern(url) THEN url ELSE ai
    IN  IF found # NoUrl THEN _validate_and_clean(found) ELSE NoUrl

\* a text or None written to a cell by to_excel and read back by
\* read_excel (the product_url of a row that is added is a non-empty text
\* and comes back as written)
cell(v) == IF v = None \/ v = "" THEN NaN ELSE v

\* add_order that leaves the status column empty
add_order_unqueued(rows, id, data) ==
    Append(rows, [order_id |-> id,
                  user_phone |-> cell(data.user_phone),
                  product_url |-> data.product_url,
                  size |-> cell(data.size),
                  status |-> cell("")])

\* DataManager.add_order, lines 155-178: the sheet with the new row
add_order(rows, id, data) ==
    Append(rows, [order_id |-> id,
                  user_phone |-> cell(data.user_phone),
                  product_url |-> data.product_url,
                  size |-> cell(data.size),
                  status |-> cell("pending")])

\* DataManager.get_user_orders
get_user_orders(rows, user_phone) == SelectSeq(rows, LAMBDA r : r.user_phone = user_phone)

(***************************************************************************)
(* State.                                                                  *)
(*   orders          rows of the orders sheet                              *)
(*   page            the bot's page: "none", "open" or "crashed"           *)
(*   pc              position of run_shein_bot / process_pending_orders    *)
(*   pending_orders  the list fetched by the batch run                     *)
(*   idx             index of the order of the for loop                    *)
(*   results         the counts of the batch run                           *)
(*   ret             return value of add_product_to_cart                   *)
(*   att             what the attempt on the current order did so far      *)
(*   hist            per order id, the events of its attempt in this run:  *)
(*                   nav_fail, invalid, size_fail, cart_fail, clicked      *)
(*   crashAt         number of orders started when the browser crashed     *)
(*   probe, res      a chain applied to one fixture, and its result        *)
(*   immPc           per order id, position of its add_to_cart_async       *)
(*                   thread of the orchestrator ("-": no thread)           *)
(*   sweepPc         position of the orchestrator's process_pending_orders *)
(*   delays          inter-order sleeps completed in the current batch run *)
(*   tries           per order id, calls of add_product_to_cart for it in  *)
(*                   the current batch run                                 *)
(*   runs            number of the batch run (run_shein_bot invocation)    *)
(*   cookieFile      the file Config.COOKIES_FILE: exists, and its text    *)
(*   jar             the cookies of the browsing context                   *)
(*   sPc             position of one run of run_shein_bot, seen from the   *)
(*                   session: launch, context, load, newpage, login,       *)
(*                   process, closing, save, write, bclose, done, crashed  *)
(*   browser         self.browser: "none", "open" or "closed"              *)
(*   context, bpage  self.context / self.page have been created            *)
(*   loaded          what _load_cookies did: "-", "absent", "ok", "error"  *)
(*   logged          the page check_login_status saw and what it returned  *)
(*   buf             the text json.dump is writing to the cookie file      *)
(*   lastSaved       the cookie set of the last save, ok when the save     *)
(*                   wrote its whole text, fresh when no file existed      *)
(*                   before it                                             *)
(*   exitPath        how the run reached close(): "-", "initfail",         *)
(*                   "exception" or "normal"                               *)
(*   sRun            number of the run                                     *)
(*   sheet           the orders sheet with the columns the intake fills    *)
(*   inbox           the WhatsApp message being handled                    *)
(*   iPc             what became of it: "idle", "added", "rejected",       *)
(*                   "error"                                               *)
(*   lastId          the last return value of add_order                    *)
(*   navigated       the URLs the bot has called page.goto on              *)
(*   nmsg            number of messages received                           *)
(*   wPc             per writer of the orders file (add_order,             *)
(*                   update_order_status), its position: "idle", "write"   *)
(*                   (the sheet is read and changed in memory), "done"     *)
(*   df              per writer, its DataFrame                             *)
(*   upd             the arguments of the update_order_status call         *)
(***************************************************************************)
VARIABLES orders, page, pc, pending_orders, idx, results, ret, att, hist, crashAt,
          probe, res, immPc, sweepPc, delays, tries, runs,
          cookieFile, jar, sPc, browser, context, bpage, loaded, logged, buf, lastSaved,
          exitPath, sRun,
          sheet, inbox, iPc, lastId, navigated, nmsg,
          wPc, df, upd

vars == << orders, page, pc, pending_orders, idx, results, ret, att, hist, crashAt,
           probe, res, immPc, sweepPc, delays, tries, runs,
           cookieFile, jar, sPc, browser, context, bpage, loaded, logged, buf, lastSaved,
           exitPath, sRun,
           sheet, inbox, iPc, lastId, navigated, nmsg,
           wPc, df, upd >>

botVars == << sPc, browser, context, bpage, loaded, logged, buf, exitPath >>
sessVars == << cookieFile, jar, lastSaved, sRun, botVars >>
intakeVars == << sheet, inbox, iPc, lastId, navigated, nmsg >>
fileVars == << wPc, df, upd >>
extVars == << sessVars, intakeVars, fileVars >>

countVars == << delays, tries, runs >>
batchVars == << orders, page, pc, pending_orders, idx, results, ret, att, hist, crashAt,
                countVars >>
chainVars == << probe, res >>
orchVars == << immPc, sweepPc >>

OrderIds == 1 .. MaxOrders

AttNone ==
    [nav |-> "-", valid |-> "-", size |-> "-", color |-> "-", qty |-> "-",
     cart |-> "-", clickedDisabled |-> FALSE, allDisabled |-> FALSE,
     tier |-> "-"]

NoRet == [success |-> FALSE, message |-> <<>>]
NoResults == [success |-> 0, failed |-> 0, total |-> 0]
NoProbe == [op |-> "-"]

\* a row as DataManager.add_order writes it and read_excel reads it back
NewOrder(id, size, color, quantity) ==
    [order_id |-> id, size |-> size, color |-> color, quantity |-> quantity,
     status |-> "pending", processed_at |-> "", notes |-> <<>>]

\* the variant of an order: size and color both given, or both left empty
Variants == {[size |-> "M", color |-> "Red"], [size |-> NaN, color |-> NaN]}

NoLogin == [ret |-> "-", found |-> FALSE, loginUrl |-> FALSE, err |-> FALSE]

NoSave == [ok |-> FALSE, set |-> {}, fresh |-> FALSE]

\* a SheinBot just constructed: no browser, no context, no page
NewBot ==
    /\ sPc = "launch"
    /\ browser = "none"
    /\ context = FALSE
    /\ bpage = FALSE
    /\ loaded = "-"
    /\ logged = NoLogin
    /\ buf = <<>>
    /\ exitPath = "-"

SessIdle ==
    /\ cookieFile = NoFile
    /\ jar = {}
    /\ lastSaved = NoSave
    /\ sRun = 1
    /\ NewBot

\* add_order returned None (order ids start at 1)
NoId == 0

NoMessage == [user_phone |-> None, url |-> NoUrl, size |-> None]

IntakeIdle ==
    /\ sheet = <<>>
    /\ inbox = NoMessage
    /\ iPc = "idle"
    /\ lastId = NoId
    /\ navigated = {}
    /\ nmsg = 0

\* the two writers of the orders file
Writers == {"add_order", "update_order_status"}

NoUpdate == [order_id |-> NoId, status |-> "-"]

FileIdle ==
    /\ wPc = [w \in Writers |-> "idle"]
    /\ df = [w \in Writers |-> <<>>]
    /\ upd = NoUpdate

InitBatch ==
    /\ \E n \in 0 .. MaxOrders :
         \E vr \in [1 .. n -> Variants], qt \in [1 .. n -> Quantities] :
            orders = [i \in 1 .. n |-> NewOrder(i, vr[i].size, vr[i].color, qt[i])]
    /\ page = "none"
    /\ pc = "start"
    /\ pending_orders = <<>>
    /\ idx = 0
    /\ results = NoResults
    /\ ret = NoRet
    /\ att = AttNone
    /\ hist = [o \in OrderIds |-> {}]
    /\ crashAt = 0
    /\ delays = 0
    /\ tries = [o \in OrderIds |-> 0]
    /\ runs = 1

AttemptPcs == {"goto", "validate", "size", "color", "quantity", "cart", "confirm"}

order == pending_orders[idx]

\* Python truth value of a field of the order dict
Truthy(v) == v # ""

\* add_product_to_cart returns (success, message)
Return(success, message) ==
    /\ ret' = [success |-> success, message |-> message]
    /\ pc' = "update"

Event(tag) == hist' = [hist EXCEPT ![order.order_id] = @ \cup {tag}]

(***************************************************************************)
(* run_shein_bot                                                           *)
(***************************************************************************)
initialize_browser ==
    /\ pc = "start"
    /\ \E launched \in BOOLEAN :
         IF launched THEN page' = "open" /\ pc' = "login"
         ELSE page' = "none" /\ pc' = "close"
    /\ UNCHANGED << orders, pending_orders, idx, results, ret, att, hist, crashAt, chainVars, extVars, orchVars, countVars >>

check_login_status ==
    /\ pc = "login"
    /\ pc' = "fetch"
    /\ UNCHANGED << orders, page, pending_orders, idx, results, ret, att, hist, crashAt, chainVars, extVars, orchVars, countVars >>

\* the browser process dies: from now on every call on the page raises
BrowserCrash ==
    /\ page = "open"
    /\ pc \in {"login", "fetch"} \cup AttemptPcs \cup {"update", "sleep"}
    /\ page' = "crashed"
    /\ crashAt' = IF pc \in {"login", "fetch"} THEN 0 ELSE idx
    /\ UNCHANGED << orders, pc, pending_orders, idx, results, ret, att, hist, chainVars, extVars, orchVars, countVars >>

(***************************************************************************)
(* SheinBot.process_pending_orders                                         *)
(***************************************************************************)
\* the fetch without the status argument
fetch_pending_all ==
    /\ pc = "fetch"
    /\ pending_orders' = get_all_orders(orders, "")
    /\ IF pending_orders' = <<>>
       THEN results' = NoResults /\ pc' = "close" /\ idx' = idx
       ELSE /\ results' = [success |-> 0, failed |-> 0, total |-> Len(pending_orders')]
            /\ idx' = 1
            /\ pc' = "goto"
    /\ att' = AttNone
    /\ delays' = 0
    /\ tries' = [o \in OrderIds |-> 0]
    /\ UNCHANGED << orders, page, ret, hist, crashAt, chainVars, extVars, orchVars, runs >>

fetch_pending ==
    /\ pc = "fetch"
    /\ pending_orders' = get_all_orders(orders, "pending")
    /\ IF pending_orders' = <<>>
       THEN results' = NoResults /\ pc' = "close" /\ idx' = idx
       ELSE /\ results' = [success |-> 0, failed |-> 0, total |-> Len(pending_orders')]
            /\ idx' = 1
            /\ pc' = "goto"
    /\ att' = AttNone
    /\ delays' = 0
    /\ tries' = [o \in OrderIds |-> 0]
    /\ UNCHANGED << orders, page, ret, hist, crashAt, chainVars, extVars, orchVars, runs >>

\* goto whose error is not caught at the order boundary and ends the run
goto_abort ==
    /\ pc = "goto"
    /\ \E e \in {"ok", "TimeoutError", "TargetClosedError"} :
         /\ page = "open" => e # "TargetClosedError"
         /\ page # "open" => e = "TargetClosedError"
         /\ IF e = "ok"
            THEN /\ att' = [att EXCEPT !.nav = "ok"]
                 /\ pc' = "validate"
                 /\ UNCHANGED << ret, hist >>
            ELSE /\ att' = [att EXCEPT !.nav = "fail"]
                 /\ Event("nav_fail")
                 /\ pc' = "close"
                 /\ ret' = ret
    /\ tries' = [tries EXCEPT ![order.order_id] = @ + 1]
    /\ UNCHANGED << orders, page, pending_orders, idx, results, crashAt, chainVars, extVars, orchVars,
                    delays, runs >>

\* page.goto awaited without a timeout: on a dead browser it never returns
goto_untimed ==
    /\ pc = "goto"
    /\ page = "open"
    /\ \E e \in {"ok", "TimeoutError"} :
         IF e = "ok"
         THEN /\ att' = [att EXCEPT !.nav = "ok"]
              /\ pc' = "validate"
              /\ UNCHANGED << ret, hist >>
         ELSE /\ att' = [att EXCEPT !.nav = "fail"]
              /\ Event("nav_fail")
              /\ Return(FALSE, MsgError(e))
    /\ tries' = [tries EXCEPT ![order.order_id] = @ + 1]
    /\ UNCHANGED << orders, page, pending_orders, idx, results, crashAt, chainVars, extVars, orchVars,
                    delays, runs >>

\* page.goto(product_url, wait_until='networkidle')
goto ==
    /\ pc = "goto"
    /\ \E e \in {"ok", "TimeoutError", "TargetClosedError"} :
         /\ page = "open" => e # "TargetClosedError"
         /\ page # "open" => e = "TargetClosedError"
         /\ IF e = "ok"
            THEN /\ att' = [att EXCEPT !.nav = "ok"]
                 /\ pc' = "validate"
                 /\ UNCHANGED << ret, hist >>
            ELSE /\ att' = [att EXCEPT !.nav = "fail"]
                 /\ Event("nav_fail")
                 /\ Return(FALSE, MsgError(e))
    /\ tries' = [tries EXCEPT ![order.order_id] = @ + 1]
    /\ UNCHANGED << orders, page, pending_orders, idx, results, crashAt, chainVars, extVars, orchVars,
                    delays, runs >>

\* validate that only logs an invalid page and goes on
validate_lenient ==
    /\ pc = "validate"
    /\ \E v \in (IF page = "open" THEN ValidOutcomes
                 ELSE {ValidSummary(EmptyFixture(Len(product_indicators)), u) : u \in BOOLEAN}) :
         /\ att' = [att EXCEPT !.valid = v]
         /\ IF v # "fail" THEN hist' = hist ELSE Event("invalid")
    /\ pc' = "size"
    /\ UNCHANGED << orders, page, pending_orders, idx, results, ret, crashAt, chainVars, extVars, orchVars,
                    countVars >>

validate ==
    /\ pc = "validate"
    /\ \E v \in (IF page = "open" THEN ValidOutcomes
                 ELSE {ValidSummary(EmptyFixture(Len(product_indicators)), u) : u \in BOOLEAN}) :
         IF v # "fail"
         THEN /\ att' = [att EXCEPT !.valid = v]
              /\ pc' = "size"
              /\ UNCHANGED << ret, hist >>
         ELSE /\ att' = [att EXCEPT !.valid = "fail"]
              /\ Event("invalid")
              /\ Return(FALSE, MsgInvalid)
    /\ UNCHANGED << orders, page, pending_orders, idx, results, crashAt, chainVars, extVars, orchVars, countVars >>

\* select_size with a failed size only logged, as a failed color is
select_size_soft ==
    /\ pc = "size"
    /\ IF Truthy(order.size)
       THEN \E r \in (IF page = "open" THEN SizeOutcomes[order.size]
                      ELSE {SizeSummary(order.size, EmptyFixture(SizeSlots))}) :
              IF r.ok
              THEN att' = [att EXCEPT !.size = "ok"] /\ hist' = hist
              ELSE att' = [att EXCEPT !.size = "fail"] /\ Event("size_fail")
       ELSE UNCHANGED << att, hist >>
    /\ pc' = "color"
    /\ UNCHANGED << orders, page, pending_orders, idx, results, ret, crashAt, chainVars, extVars, orchVars, countVars >>

select_size ==
    /\ pc = "size"
    /\ IF Truthy(order.size)
       THEN \E r \in (IF page = "open" THEN SizeOutcomes[order.size]
                      ELSE {SizeSummary(order.size, EmptyFixture(SizeSlots))}) :
              IF r.ok
              THEN /\ att' = [att EXCEPT !.size = "ok"]
                   /\ pc' = "color"
                   /\ UNCHANGED << ret, hist >>
              ELSE /\ att' = [att EXCEPT !.size = "fail"]
                   /\ Event("size_fail")
                   /\ Return(FALSE, MsgSize(order.size))
       ELSE /\ pc' = "color"
            /\ UNCHANGED << att, ret, hist >>
    /\ UNCHANGED << orders, page, pending_orders, idx, results, crashAt, chainVars, extVars, orchVars, countVars >>

\* select_color with a failed color ending the attempt, as a failed size does
select_color_hard ==
    /\ pc = "color"
    /\ IF Truthy(order.color)
       THEN \E r \in (IF page = "open" THEN ColorOutcomes[order.color]
                      ELSE {ColorSummary(order.color, EmptyFixture(Len(color_selectors)))}) :
              IF r.ok
              THEN att' = [att EXCEPT !.color = "ok"] /\ pc' = "quantity" /\ ret' = ret
              ELSE /\ att' = [att EXCEPT !.color = "fail"]
                   /\ Return(FALSE, << "Couleur '", order.color, "' non trouvee" >>)
       ELSE att' = att /\ pc' = "quantity" /\ ret' = ret
    /\ UNCHANGED << orders, page, pending_orders, idx, results, hist, crashAt, chainVars, extVars, orchVars, countVars >>

select_color ==
    /\ pc = "color"
    /\ IF Truthy(order.color)
       THEN \E r \in (IF page = "open" THEN ColorOutcomes[order.color]
                      ELSE {ColorSummary(order.color, EmptyFixture(Len(color_selectors)))}) :
              att' = [att EXCEPT !.color = IF r.ok THEN "ok" ELSE "fail"]
       ELSE att' = att
    /\ pc' = "quantity"
    /\ UNCHANGED << orders, page, pending_orders, idx, results, ret, hist, crashAt, chainVars, extVars, orchVars, countVars >>

\* set_quantity with the test quantity >= 1
set_quantity_always ==
    /\ pc = "quantity"
    /\ \E r \in (IF page = "open" /\ order.quantity > 1 THEN QtyOutcomes[order.quantity]
                 ELSE {_set_quantity(EmptyFixture(Len(qty_selectors)),
                                     EmptyFixture(Len(plus_button_selectors)),
                                     order.quantity)}) :
         att' = [att EXCEPT !.qty = IF r.ok THEN "ok" ELSE "fail"]
    /\ pc' = "cart"
    /\ UNCHANGED << orders, page, pending_orders, idx, results, ret, hist, crashAt, chainVars, extVars,
                    orchVars, countVars >>

set_quantity ==
    /\ pc = "quantity"
    /\ IF order.quantity > 1
       THEN \E r \in (IF page = "open" THEN QtyOutcomes[order.quantity]
                      ELSE {_set_quantity(EmptyFixture(Len(qty_selectors)),
                                          EmptyFixture(Len(plus_button_selectors)),
                                          order.quantity)}) :
              att' = [att EXCEPT !.qty = IF r.ok THEN "ok" ELSE "fail"]
       ELSE att' = att
    /\ pc' = "cart"
    /\ UNCHANGED << orders, page, pending_orders, idx, results, ret, hist, crashAt, chainVars, extVars, orchVars, countVars >>

\* click_add_to_cart that goes on to the confirmation whether or not a click
\* was made
click_add_to_cart_blind ==
    /\ pc = "cart"
    /\ \E r \in (IF page = "open" THEN CartOutcomes
                 ELSE {CartSummary(EmptyFixture(Len(add_to_cart_selectors)))}) :
         /\ att' = [att EXCEPT !.cart = IF r.ok THEN "ok" ELSE "fail",
                               !.clickedDisabled = r.clickedDisabled,
                               !.allDisabled = r.allDisabled]
         /\ hist' = [hist EXCEPT ![order.order_id] =
                        @ \cup (IF r.clicks > 0 THEN {"clicked"} ELSE {})
                          \cup (IF r.ok THEN {} ELSE {"cart_fail"})]
         /\ pc' = "confirm"
         /\ ret' = ret
    /\ UNCHANGED << orders, page, pending_orders, idx, results, crashAt, chainVars, extVars, orchVars, countVars >>

click_add_to_cart ==
    /\ pc = "cart"
    /\ \E r \in (IF page = "open" THEN CartOutcomes
                 ELSE {CartSummary(EmptyFixture(Len(add_to_cart_selectors)))}) :
         /\ att' = [att EXCEPT !.cart = IF r.ok THEN "ok" ELSE "fail",
                               !.clickedDisabled = r.clickedDisabled,
                               !.allDisabled = r.allDisabled]
         /\ hist' = [hist EXCEPT ![order.order_id] =
                        @ \cup (IF r.clicks > 0 THEN {"clicked"} ELSE {})
                          \cup (IF r.ok THEN {} ELSE {"cart_fail"})]
         /\ IF r.ok
            THEN pc' = "confirm" /\ ret' = ret
            ELSE Return(FALSE, MsgCart)
    /\ UNCHANGED << orders, page, pending_orders, idx, results, crashAt, chainVars, extVars, orchVars, countVars >>

\* confirm_cart_addition that takes only an explicit indicator as success
confirm_cart_addition_explicit ==
    /\ pc = "confirm"
    /\ \E r \in (IF page = "open" THEN ConfirmOutcomes
                 ELSE {_confirm_cart_addition(EmptyFixture(Len(success_indicators)),
                                              EmptyFixture(Len(modal_selectors)))}) :
         /\ att' = [att EXCEPT !.tier = r.tier]
         /\ IF r.tier = "explicit"
            THEN Return(TRUE, MsgSuccess)
            ELSE Return(FALSE, MsgUnconfirmed)
    /\ UNCHANGED << orders, page, pending_orders, idx, results, hist, crashAt, chainVars, extVars, orchVars,
                    countVars >>

confirm_cart_addition ==
    /\ pc = "confirm"
    /\ \E r \in (IF page = "open" THEN ConfirmOutcomes
                 ELSE {_confirm_cart_addition(EmptyFixture(Len(success_indicators)),
                                              EmptyFixture(Len(modal_selectors)))}) :
         /\ att' = [att EXCEPT !.tier = r.tier]
         /\ IF r.ok
            THEN Return(TRUE, MsgSuccess)
            ELSE Return(FALSE, MsgUnconfirmed)
    /\ UNCHANGED << orders, page, pending_orders, idx, results, hist, crashAt, chainVars, extVars, orchVars, countVars >>

\* record_outcome that counts a failed order without writing its status
record_outcome_unwritten ==
    /\ pc = "update"
    /\ IF ret.success
       THEN /\ orders' = update_order_status(orders, order.order_id, "completed", NoteCompleted)
            /\ results' = [results EXCEPT !.success = @ + 1]
       ELSE /\ orders' = orders
            /\ results' = [results EXCEPT !.failed = @ + 1]
    /\ pc' = "sleep"
    /\ UNCHANGED << page, pending_orders, idx, ret, att, hist, crashAt, chainVars, extVars, orchVars, countVars >>

\* record_outcome that writes a failed order without counting it
record_outcome_uncounted ==
    /\ pc = "update"
    /\ IF ret.success
       THEN /\ orders' = update_order_status(orders, order.order_id, "completed", NoteCompleted)
            /\ results' = [results EXCEPT !.success = @ + 1]
       ELSE /\ orders' = update_order_status(orders, order.order_id, "failed", NoteFailed(ret.message))
            /\ results' = results
    /\ pc' = "sleep"
    /\ UNCHANGED << page, pending_orders, idx, ret, att, hist, crashAt, chainVars, extVars, orchVars, countVars >>

\* record_outcome that only counts: the statuses are left to be written
\* after the loop
record_outcome_deferred ==
    /\ pc = "update"
    /\ orders' = orders
    /\ results' = IF ret.success THEN [results EXCEPT !.success = @ + 1]
                  ELSE [results EXCEPT !.failed = @ + 1]
    /\ pc' = "sleep"
    /\ UNCHANGED << page, pending_orders, idx, ret, att, hist, crashAt, chainVars, extVars, orchVars, countVars >>

\* lines 487-500: the status is written and the order is counted
record_outcome ==
    /\ pc = "update"
    /\ IF ret.success
       THEN /\ orders' = update_order_status(orders, order.order_id, "completed", NoteCompleted)
            /\ results' = [results EXCEPT !.success = @ + 1]
       ELSE /\ orders' = update_order_status(orders, order.order_id, "failed", NoteFailed(ret.message))
            /\ results' = [results EXCEPT !.failed = @ + 1]
    /\ pc' = "sleep"
    /\ UNCHANGED << page, pending_orders, idx, ret, att, hist, crashAt, chainVars, extVars, orchVars, countVars >>

\* the loop step with the sleep inside the success branch
rate_limit_sleep_on_success ==
    /\ pc = "sleep"
    /\ IF idx < Len(pending_orders)
       THEN idx' = idx + 1 /\ pc' = "goto" /\ att' = AttNone
       ELSE idx' = idx /\ pc' = "close" /\ att' = att
    /\ delays' = IF ret.success THEN delays + 1 ELSE delays
    /\ UNCHANGED << orders, page, pending_orders, results, ret, hist, crashAt, chainVars, extVars, orchVars,
                    tries, runs >>

\* the loop step with one retry of a failed order
rate_limit_sleep_retry ==
    /\ pc = "sleep"
    /\ IF ~ret.success /\ tries[order.order_id] < 2
       THEN idx' = idx /\ pc' = "goto" /\ att' = AttNone
       ELSE IF idx < Len(pending_orders)
            THEN idx' = idx + 1 /\ pc' = "goto" /\ att' = AttNone
            ELSE idx' = idx /\ pc' = "close" /\ att' = att
    /\ delays' = delays + 1
    /\ UNCHANGED << orders, page, pending_orders, results, ret, hist, crashAt, chainVars, extVars, orchVars,
                    tries, runs >>

\* asyncio.sleep(Config.RATE_LIMIT_DELAY), then the next order or the return
rate_limit_sleep ==
    /\ pc = "sleep"
    /\ IF idx < Len(pending_orders)
       THEN idx' = idx + 1 /\ pc' = "goto" /\ att' = AttNone
       ELSE idx' = idx /\ pc' = "close" /\ att' = att
    /\ delays' = delays + 1
    /\ UNCHANGED << orders, page, pending_orders, results, ret, hist, crashAt, chainVars, extVars, orchVars,
                    tries, runs >>

close ==
    /\ pc = "close"
    /\ page' = "none"
    /\ pc' = "done"
    /\ UNCHANGED << orders, pending_orders, idx, results, ret, att, hist, crashAt, chainVars, extVars, orchVars, countVars >>

Next ==
    \/ initialize_browser
    \/ check_login_status
    \/ BrowserCrash
    \/ fetch_pending
    \/ goto
    \/ validate
    \/ select_size
    \/ select_color
    \/ set_quantity
    \/ click_add_to_cart
    \/ confirm_cart_addition
    \/ record_outcome
    \/ rate_limit_sleep
    \/ close

NoThreads == immPc = [o \in OrderIds |-> "-"] /\ sweepPc = "idle"

Init == InitBatch /\ probe = NoProbe /\ res = NoProbe /\ NoThreads /\ SessIdle /\ IntakeIdle /\ FileIdle

Spec == Init /\ [][Next]_vars

(***************************************************************************)
(* Successive batch runs over the same orders sheet: the standalone entry  *)
(* point is run again after a run has returned, and between two runs a row *)
(* can be set back to pending from outside the batch processor.            *)
(***************************************************************************)
InitRuns ==
    /\ Init
    /\ \A i \in DOMAIN orders : orders[i].size = "M" /\ orders[i].quantity = 1

\* asyncio.run(run_shein_bot()) once more: a new SheinBot, nothing kept
rerun ==
    /\ pc = "done"
    /\ runs < MaxRuns
    /\ runs' = runs + 1
    /\ pc' = "start"
    /\ pending_orders' = <<>>
    /\ idx' = 0
    /\ results' = NoResults
    /\ ret' = NoRet
    /\ att' = AttNone
    /\ delays' = 0
    /\ tries' = [o \in OrderIds |-> 0]
    /\ hist' = [o \in OrderIds |-> {}]
    /\ UNCHANGED << orders, page, crashAt, chainVars, extVars, orchVars >>

\* update_order_status(order_id, 'pending', notes) called by something else
\* than the bot, with a note of its own
requeue(o) ==
    /\ pc = "done"
    /\ runs < MaxRuns
    /\ \E i \in DOMAIN orders : orders[i].order_id = o /\ orders[i].status \in {"failed", "completed"}
    /\ orders' = update_order_status(orders, o, "pending", << "Remise en attente" >>)
    /\ UNCHANGED << page, pc, pending_orders, idx, results, ret, att, hist, crashAt,
                    chainVars, extVars, orchVars, countVars >>

NextRuns ==
    \/ initialize_browser
    \/ check_login_status
    \/ fetch_pending
    \/ goto
    \/ validate
    \/ select_size
    \/ select_color
    \/ set_quantity
    \/ click_add_to_cart
    \/ confirm_cart_addition
    \/ record_outcome
    \/ rate_limit_sleep
    \/ close
    \/ rerun
    \/ \E o \in OrderIds : requeue(o)

SpecRuns == InitRuns /\ [][NextRuns]_vars

\* The batch run is one coroutine on its own event loop (asyncio.run at
\* shein_bot.py:558): every await of the run ends, by its result or by its
\* timeout, so the step the coroutine is at is eventually taken.
SpecFair == InitRuns /\ [][Next]_vars /\ WF_vars(Next)

(***************************************************************************)
(* A batch run over an order store whose writes can fail: the sheet is     *)
(* locked or unreadable, update_order_status logs the exception and        *)
(* returns False.                                                          *)
(***************************************************************************)
\* lines 487-500 with data_manager.py:220-246: the return value of
\* update_order_status is not looked at, the order is counted either way
record_outcome_io ==
    /\ pc = "update"
    /\ \E written \in BOOLEAN :
         orders' = IF ~written THEN orders
                   ELSE IF ret.success
                        THEN update_order_status(orders, order.order_id, "completed", NoteCompleted)
                        ELSE update_order_status(orders, order.order_id, "failed",
                                                 NoteFailed(ret.message))
    /\ results' = IF ret.success THEN [results EXCEPT !.success = @ + 1]
                  ELSE [results EXCEPT !.failed = @ + 1]
    /\ pc' = "sleep"
    /\ UNCHANGED << page, pending_orders, idx, ret, att, hist, crashAt, chainVars, extVars, orchVars, countVars >>

NextStore ==
    \/ initialize_browser
    \/ check_login_status
    \/ fetch_pending
    \/ goto
    \/ validate
    \/ select_size
    \/ select_color
    \/ set_quantity
    \/ click_add_to_cart
    \/ confirm_cart_addition
    \/ record_outcome_io
    \/ rate_limit_sleep
    \/ close

SpecStore == InitRuns /\ [][NextStore]_vars

(***************************************************************************)
(* One chain applied to one page fixture.                                  *)
(***************************************************************************)
BotIdle ==
    /\ page = "none"
    /\ pc = "idle"
    /\ pending_orders = <<>>
    /\ idx = 0
    /\ results = NoResults
    /\ ret = NoRet
    /\ att = AttNone
    /\ hist = [o \in OrderIds |-> {}]
    /\ crashAt = 0
    /\ delays = 0
    /\ tries = [o \in OrderIds |-> 0]
    /\ runs = 1

BatchIdle == orders = <<>> /\ BotIdle

Probe(op, fx, fx2, quantity, urlOk) ==
    [op |-> op, fx |-> fx, fx2 |-> fx2, quantity |-> quantity, urlOk |-> urlOk]

\* probe = mk(fx) for some fixture fx of n slots
SomeFixture(n, Kinds, Common, mk(_)) ==
    \E S \in SlotSets(n), b \in Common :
        \E f \in [S -> Kinds] : probe = mk(Fixture(n, S, f, b))

InitChain ==
    /\ BatchIdle
    /\ NoThreads
    /\ SessIdle
    /\ IntakeIdle
    /\ FileIdle
    /\ res = NoProbe
    /\ \/ \E u \in BOOLEAN :
            SomeFixture(Len(product_indicators), PresenceKinds, {Absent},
                        LAMBDA fx : Probe("valid", fx, <<>>, 0, u))
       \/ SomeFixture(SizeSlots, ControlKinds, CommonControls,
                      LAMBDA fx : Probe("size", fx, <<>>, 0, FALSE))
       \/ SomeFixture(Len(color_selectors), SwatchKinds, {Absent},
                      LAMBDA fx : Probe("color", fx, <<>>, 0, FALSE))
       \/ \E n \in 2 .. MaxStepQty :
            \E S2 \in SlotSets(Len(plus_button_selectors)) :
              \E f2 \in [S2 -> StepperKinds] :
                 SomeFixture(Len(qty_selectors), InputKinds, {Absent},
                     LAMBDA fx : Probe("quantity", fx,
                                       Fixture(Len(plus_button_selectors), S2, f2, Absent), n, FALSE))
       \/ SomeFixture(Len(add_to_cart_selectors), ControlKinds, CommonControls,
                      LAMBDA fx : Probe("cart", fx, <<>>, 0, FALSE))
       \/ \E S2 \in SlotSets(Len(modal_selectors)) :
              \E f2 \in [S2 -> PresenceKinds] :
                 SomeFixture(Len(success_indicators), PresenceKinds, {Absent},
                     LAMBDA fx : Probe("confirm", fx,
                                       Fixture(Len(modal_selectors), S2, f2, Absent), 0, FALSE))

Apply(op, result) ==
    /\ probe.op = op
    /\ res = NoProbe
    /\ res' = result
    /\ UNCHANGED << probe, batchVars, orchVars, extVars >>

apply_is_valid_product_page == Apply("valid", _is_valid_product_page(probe.fx, probe.urlOk))
apply_select_size == Apply("size", _select_size(probe.fx))
apply_select_color == Apply("color", _select_color(probe.fx))
apply_set_quantity == Apply("quantity", _set_quantity(probe.fx, probe.fx2, probe.quantity))
apply_click_add_to_cart == Apply("cart", _click_add_to_cart(probe.fx))
apply_confirm_cart_addition == Apply("confirm", _confirm_cart_addition(probe.fx, probe.fx2))

NextChain ==
    \/ apply_is_valid_product_page
    \/ apply_select_size
    \/ apply_select_color
    \/ apply_set_quantity
    \/ apply_click_add_to_cart
    \/ apply_confirm_cart_addition

SpecChain == InitChain /\ [][NextChain]_vars

(***************************************************************************)
(* The orchestrator's two paths to the bot (main.py): one thread per order *)
(* started by schedule_cart_addition, and the process_pending_orders job.  *)
(* Thread positions: "sleep" (line 143), "lookup" (146-151), "call" (154), *)
(* "page" (the bot driving the browser page), "mark_ok" (163),             *)
(* "mark_fail" (166), "except" (169-171), "done".                          *)
(***************************************************************************)
ConfigAttrs ==
    {"OPENAI_API_KEY", "TWILIO_ACCOUNT_SID", "TWILIO_AUTH_TOKEN", "TWILIO_WHATSAPP_NUMBER",
     "GOOGLE_SHEETS_CREDENTIALS", "GOOGLE_SHEETS_ID", "BASE_DIR", "DATA_DIR", "COOKIES_DIR",
     "LOGS_DIR", "ORDERS_FILE", "USERS_FILE", "COOKIES_FILE", "SHEIN_BASE_URL",
     "SHEIN_CART_URL", "SHEIN_LOGIN_URL", "BROWSER_HEADLESS", "BROWSER_TIMEOUT",
     "PAGE_LOAD_TIMEOUT", "AI_MODEL", "AI_TEMPERATURE", "AI_MAX_TOKENS", "MAX_ITEMS_PER_USER",
     "MAX_TOTAL_ITEMS", "RATE_LIMIT_DELAY", "WELCOME_MESSAGE", "ERROR_MESSAGE",
     "SUCCESS_MESSAGE"}

HasConfig(name) == name \in ConfigAttrs

\* control flow of add_to_cart_async with every call awaited and every
\* configuration attribute defined
add_to_cart_async_awaited(p, found, success) ==
    CASE p = "sleep" -> "lookup"
      [] p = "lookup" -> IF found THEN "call" ELSE "done"
      [] p = "call" -> "page"
      [] p = "page" -> IF success THEN "mark_ok" ELSE "mark_fail"
      [] OTHER -> "done"

\* next position of the thread: Config.CART_ADDITION_DELAY does not exist,
\* and add_product_to_cart is called without await, so its coroutine object
\* (truthy) is the value of success and the page is never driven
add_to_cart_async(p, found, success) ==
    CASE p = "sleep" -> IF HasConfig("CART_ADDITION_DELAY") THEN "lookup" ELSE "except"
      [] p = "lookup" -> IF found THEN "call" ELSE "done"
      [] p = "call" -> "mark_ok"
      [] p = "page" -> IF success THEN "mark_ok" ELSE "mark_fail"
      [] OTHER -> "done"

InitOrch ==
    /\ BotIdle
    /\ SessIdle
    /\ IntakeIdle
    /\ FileIdle
    /\ probe = NoProbe
    /\ res = NoProbe
    /\ NoThreads
    /\ \E n \in 1 .. MaxOrders :
          \E sz \in [1 .. n -> {"M", NaN}] :
             orders = [i \in 1 .. n |-> NewOrder(i, sz[i], "Red", 1)]

schedule_cart_addition(o) ==
    /\ o \in 1 .. Len(orders)
    /\ immPc[o] = "-"
    /\ immPc' = [immPc EXCEPT ![o] = "sleep"]
    /\ UNCHANGED << batchVars, chainVars, extVars, sweepPc >>

add_to_cart_async_step(o) ==
    /\ immPc[o] \notin {"-", "done"}
    /\ \E success \in BOOLEAN :
         LET p == immPc[o]
             found == \E i \in 1 .. Len(orders) : orders[i].order_id = o
         IN  /\ immPc' = [immPc EXCEPT ![o] = add_to_cart_async(p, found, success)]
             /\ orders' = CASE p = "mark_ok" -> update_order_status(orders, o, "completed", <<>>)
                            [] p \in {"mark_fail", "except"} ->
                                   update_order_status(orders, o, "failed", <<>>)
                            [] OTHER -> orders
    /\ UNCHANGED << page, pc, pending_orders, idx, results, ret, att, hist, crashAt,
                    chainVars, extVars, sweepPc, countVars >>

\* main.py process_pending_orders: "read" (229-235), "call" (241, the bot's
\* coroutine is created and never awaited), "log" (243), "done" (returned,
\* until the job is due again)
sweep_start ==
    /\ sweepPc \in {"idle", "done"}
    /\ sweepPc' = "read"
    /\ UNCHANGED << batchVars, chainVars, extVars, immPc >>

sweep_read ==
    /\ sweepPc = "read"
    /\ sweepPc' = IF get_all_orders(orders, "pending") = <<>> THEN "done" ELSE "call"
    /\ UNCHANGED << batchVars, chainVars, extVars, immPc >>

sweep_call ==
    /\ sweepPc = "call"
    /\ sweepPc' = "log"
    /\ UNCHANGED << batchVars, chainVars, extVars, immPc >>

sweep_log ==
    /\ sweepPc = "log"
    /\ sweepPc' = "done"
    /\ UNCHANGED << batchVars, chainVars, extVars, immPc >>

NextOrch ==
    \/ \E o \in OrderIds : schedule_cart_addition(o)
    \/ \E o \in OrderIds : add_to_cart_async_step(o)
    \/ sweep_start
    \/ sweep_read
    \/ sweep_call
    \/ sweep_log

SpecOrch == InitOrch /\ [][NextOrch]_vars

\* the job of the scheduler thread (run_scheduler calls schedule.run_pending
\* every 60 s while self.running): a sweep that is due is started and each of
\* its steps is taken, and a thread that was started runs to its end; whether
\* a thread is ever started for an order depends on the intake, and is not
\* assumed
sweep == sweep_start \/ sweep_read \/ sweep_call \/ sweep_log

SpecOrchFair ==
    /\ InitOrch
    /\ [][NextOrch]_vars
    /\ WF_vars(sweep)
    /\ \A o \in OrderIds : WF_vars(add_to_cart_async_step(o))

(***************************************************************************)
(* The session of run_shein_bot: the browser, its context and its cookies  *)
(* from initialize_browser to close(), the cookie file across runs, and    *)
(* the death of the process at any point of a run.                         *)
(***************************************************************************)
SessionFrame == UNCHANGED << batchVars, chainVars, orchVars, intakeVars, fileVars >>

InitSession ==
    /\ BatchIdle
    /\ NoThreads
    /\ probe = NoProbe
    /\ res = NoProbe
    /\ IntakeIdle
    /\ FileIdle
    /\ NewBot
    /\ jar = {}
    /\ sRun = 1
    /\ \/ cookieFile = NoFile /\ lastSaved = NoSave
       \/ \E J \in Jars :
             /\ cookieFile = FileOf(json_dump(cookies_list(J)))
             /\ lastSaved = [ok |-> TRUE, set |-> J, fresh |-> FALSE]

\* initialize_browser, lines 44-55: playwright start and chromium.launch
launch ==
    /\ sPc = "launch"
    /\ \E ok \in BOOLEAN :
         IF ok THEN browser' = "open" /\ sPc' = "context" /\ exitPath' = exitPath
         ELSE browser' = browser /\ sPc' = "closing" /\ exitPath' = "initfail"
    /\ UNCHANGED << cookieFile, jar, lastSaved, sRun, context, bpage, loaded, logged, buf >>
    /\ SessionFrame

\* initialize_browser, lines 57-62: browser.new_context
new_context ==
    /\ sPc = "context"
    /\ \E ok \in BOOLEAN :
         IF ok THEN context' = TRUE /\ sPc' = "load" /\ exitPath' = exitPath
         ELSE context' = context /\ sPc' = "closing" /\ exitPath' = "initfail"
    /\ UNCHANGED << cookieFile, jar, lastSaved, sRun, browser, bpage, loaded, logged, buf >>
    /\ SessionFrame

\* _load_cookies that does nothing at start-up
_load_cookies_deferred ==
    /\ sPc = "load"
    /\ sPc' = "newpage"
    /\ UNCHANGED << cookieFile, jar, lastSaved, sRun, browser, context, bpage, loaded, logged, buf,
                    exitPath >>
    /\ SessionFrame

\* _load_cookies that opens the file without looking whether it exists
_load_cookies_unchecked ==
    /\ sPc = "load"
    /\ LET r == json_load(cookieFile.text)
       IN  IF cookieFile.exists /\ r.ok
           THEN /\ jar' = jar \cup {r.value[i] : i \in DOMAIN r.value}
                /\ loaded' = "ok"
           ELSE /\ jar' = jar
                /\ loaded' = "error"
    /\ sPc' = "newpage"
    /\ UNCHANGED << cookieFile, lastSaved, sRun, browser, context, bpage, logged, buf, exitPath >>
    /\ SessionFrame

\* _load_cookies (called at line 65): every exception is logged and dropped
_load_cookies ==
    /\ sPc = "load"
    /\ IF ~cookieFile.exists
       THEN /\ jar' = jar
            /\ loaded' = "absent"
       ELSE LET r == json_load(cookieFile.text)
            IN  IF r.ok
                THEN /\ jar' = jar \cup {r.value[i] : i \in DOMAIN r.value}
                     /\ loaded' = "ok"
                ELSE /\ jar' = jar
                     /\ loaded' = "error"
    /\ sPc' = "newpage"
    /\ UNCHANGED << cookieFile, lastSaved, sRun, browser, context, bpage, logged, buf, exitPath >>
    /\ SessionFrame

\* run_shein_bot without the finally: close() only after the processing
new_page_unscoped ==
    /\ sPc = "newpage"
    /\ \E ok \in BOOLEAN :
         IF ok THEN bpage' = TRUE /\ sPc' = "login" /\ exitPath' = exitPath
         ELSE bpage' = bpage /\ sPc' = "done" /\ exitPath' = "initfail"
    /\ UNCHANGED << cookieFile, jar, lastSaved, sRun, browser, context, loaded, logged, buf >>
    /\ SessionFrame

\* initialize_browser, lines 67-79: context.new_page, then True; False on any
\* exception, and run_shein_bot returns through its finally
new_page ==
    /\ sPc = "newpage"
    /\ \E ok \in BOOLEAN :
         IF ok THEN bpage' = TRUE /\ sPc' = "login" /\ exitPath' = exitPath
         ELSE bpage' = bpage /\ sPc' = "closing" /\ exitPath' = "initfail"
    /\ UNCHANGED << cookieFile, jar, lastSaved, sRun, browser, context, loaded, logged, buf >>
    /\ SessionFrame

\* run_shein_bot lines 541-543: check_login_status on the home page; the
\* site may set cookies while the page loads
session_login ==
    /\ sPc = "login"
    /\ \E S \in SlotSets(Len(login_indicators)), loginUrl \in BOOLEAN, err \in BOOLEAN :
         \E f \in [S -> PresenceKinds] :
            LET fx == Fixture(Len(login_indicators), S, f, Absent)
            IN  logged' = [ret |-> IF login_status(fx, loginUrl, err) THEN "true" ELSE "false",
                           found |-> ~err /\ AnyPresent(fx),
                           loginUrl |-> ~err /\ loginUrl,
                           err |-> err]
    /\ jar' \in {J \in Jars : Cardinality(J) >= Cardinality(jar)}
    /\ sPc' = "process"
    /\ UNCHANGED << cookieFile, lastSaved, sRun, browser, context, bpage, loaded, buf, exitPath >>
    /\ SessionFrame

\* run_shein_bot line 546: process_pending_orders returns or raises; the
\* site may set cookies during the navigations
session_process ==
    /\ sPc = "process"
    /\ jar' \in {J \in Jars : Cardinality(J) >= Cardinality(jar)}
    /\ \E raised \in BOOLEAN : exitPath' = IF raised THEN "exception" ELSE "normal"
    /\ sPc' = "closing"
    /\ UNCHANGED << cookieFile, lastSaved, sRun, browser, context, bpage, loaded, logged, buf >>
    /\ SessionFrame

\* close, lines 518-520
close_begin ==
    /\ sPc = "closing"
    /\ sPc' = IF context THEN "save" ELSE "bclose"
    /\ UNCHANGED << cookieFile, jar, lastSaved, sRun, browser, context, bpage, loaded, logged, buf,
                    exitPath >>
    /\ SessionFrame

\* _save_cookies, lines 100-102: context.cookies() and open(file, 'w'),
\* which truncates the file; an exception of either is logged and dropped
save_open ==
    /\ sPc = "save"
    /\ \E e \in {"ok", "cookies_raises", "open_raises"} :
         IF e = "ok"
         THEN /\ buf' = json_dump(cookies_list(jar))
              /\ cookieFile' = FileOf(<<>>)
              /\ lastSaved' = [ok |-> FALSE, set |-> jar, fresh |-> ~cookieFile.exists]
              /\ sPc' = "write"
         ELSE /\ sPc' = "bclose"
              /\ UNCHANGED << buf, cookieFile, lastSaved >>
    /\ UNCHANGED << jar, sRun, browser, context, bpage, loaded, logged, exitPath >>
    /\ SessionFrame

\* json.dump that leaves the closing bracket out
save_write_open_ended ==
    /\ sPc = "write"
    /\ cookieFile' = FileOf(Append(cookieFile.text, buf[Len(cookieFile.text) + 1]))
    /\ IF Len(cookieFile'.text) >= Len(buf) - 1
       THEN lastSaved' = [lastSaved EXCEPT !.ok = TRUE] /\ sPc' = "bclose"
       ELSE lastSaved' = lastSaved /\ sPc' = "write"
    /\ UNCHANGED << jar, sRun, browser, context, bpage, loaded, logged, buf, exitPath >>
    /\ SessionFrame

\* _save_cookies, line 103: json.dump writes the next chunk of the text, or
\* the write raises (logged and dropped, the file keeps what was written)
save_write ==
    /\ sPc = "write"
    /\ \E e \in {"ok", "write_raises"} :
         IF e = "ok"
         THEN /\ cookieFile' = FileOf(Append(cookieFile.text, buf[Len(cookieFile.text) + 1]))
              /\ IF Len(cookieFile'.text) = Len(buf)
                 THEN lastSaved' = [lastSaved EXCEPT !.ok = TRUE] /\ sPc' = "bclose"
                 ELSE lastSaved' = lastSaved /\ sPc' = "write"
         ELSE /\ sPc' = "bclose"
              /\ UNCHANGED << cookieFile, lastSaved >>
    /\ UNCHANGED << jar, sRun, browser, context, bpage, loaded, logged, buf, exitPath >>
    /\ SessionFrame

\* close, lines 522-523
browser_close ==
    /\ sPc = "bclose"
    /\ browser' = IF browser = "open" THEN "closed" ELSE browser
    /\ sPc' = "done"
    /\ UNCHANGED << cookieFile, jar, lastSaved, sRun, context, bpage, loaded, logged, buf, exitPath >>
    /\ SessionFrame

\* the process dies (kill, power loss): nothing more of this run executes
ProcessCrash ==
    /\ sPc \notin {"done", "crashed"}
    /\ sPc' = "crashed"
    /\ UNCHANGED << cookieFile, jar, lastSaved, sRun, browser, context, bpage, loaded, logged, buf,
                    exitPath >>
    /\ SessionFrame

\* the entry point is run again: a new SheinBot over the same cookie file
restart ==
    /\ sPc \in {"done", "crashed"}
    /\ sRun < MaxRuns
    /\ sRun' = sRun + 1
    /\ jar' = {}
    /\ sPc' = "launch"
    /\ browser' = "none"
    /\ context' = FALSE
    /\ bpage' = FALSE
    /\ loaded' = "-"
    /\ logged' = NoLogin
    /\ buf' = <<>>
    /\ exitPath' = "-"
    /\ UNCHANGED << cookieFile, lastSaved >>
    /\ SessionFrame

NextSession ==
    \/ launch
    \/ new_context
    \/ _load_cookies
    \/ new_page
    \/ session_login
    \/ session_process
    \/ close_begin
    \/ save_open
    \/ save_write
    \/ browser_close
    \/ ProcessCrash
    \/ restart

SpecSession == InitSession /\ [][NextSession]_vars

(***************************************************************************)
(* Intake: WhatsApp messages become rows of the orders sheet, and the bot  *)
(* navigates to the product URL of the pending rows.                       *)
(***************************************************************************)
IntakeFrame == UNCHANGED << batchVars, chainVars, orchVars, sessVars, fileVars >>

InitIntake ==
    /\ BatchIdle
    /\ NoThreads
    /\ probe = NoProbe
    /\ res = NoProbe
    /\ SessIdle
    /\ IntakeIdle
    /\ FileIdle

\* an order id of add_order: new for the sheet
NewId(rows) == Len(rows) + 1

\* WhatsAppListener._process_product_message: extraction, then add_order
\* (which returns None when the sheet cannot be read or written)
_process_product_message ==
    /\ nmsg < MaxOrders
    /\ nmsg' = nmsg + 1
    /\ \E u \in Urls, p \in Phones, sz \in {"M", None}, answers \in BOOLEAN, stored \in BOOLEAN :
         LET product_url == extract_product_info(u, IF answers THEN u ELSE NoUrl)
             data == [user_phone |-> p, product_url |-> product_url, size |-> sz]
         IN  /\ inbox' = [user_phone |-> p, url |-> u, size |-> sz]
             /\ IF product_url = NoUrl
                THEN iPc' = "rejected" /\ UNCHANGED << sheet, lastId >>
                ELSE IF stored
                     THEN /\ sheet' = add_order(sheet, NewId(sheet), data)
                          /\ lastId' = NewId(sheet)
                          /\ iPc' = "added"
                     ELSE /\ lastId' = NoId
                          /\ iPc' = "error"
                          /\ sheet' = sheet
    /\ UNCHANGED navigated
    /\ IntakeFrame

\* one order of the batch loop: page.goto(order['product_url']) at line 155,
\* then the status written at lines 489-500
bot_goto ==
    /\ \E i \in DOMAIN sheet, st \in {"completed", "failed"} :
         /\ \A j \in 1 .. i - 1 : sheet[j].status # "pending"
         /\ sheet[i].status = "pending"
         /\ navigated' = navigated \cup {sheet[i].product_url}
         /\ sheet' = [sheet EXCEPT ![i].status = st]
    /\ iPc' = "idle"
    /\ UNCHANGED << inbox, lastId, nmsg >>
    /\ IntakeFrame

NextIntake ==
    \/ _process_product_message
    \/ bot_goto

SpecIntake == InitIntake /\ [][NextIntake]_vars

(***************************************************************************)
(* The orders file shared by the intake (add_order, called from the        *)
(* webhook) and the status updates (update_order_status, called from the   *)
(* bot's batch and from the per-order threads).  Each of the two rewrites  *)
(* the whole sheet from the DataFrame it read; no lock is taken.           *)
(***************************************************************************)
FileFrame ==
    UNCHANGED << page, pc, pending_orders, idx, results, ret, att, hist, crashAt, countVars,
                 chainVars, orchVars, sessVars, intakeVars >>

InitShared ==
    /\ BotIdle
    /\ NoThreads
    /\ probe = NoProbe
    /\ res = NoProbe
    /\ SessIdle
    /\ IntakeIdle
    /\ FileIdle
    /\ \E n \in 1 .. MaxOrders :
          \E qt \in [1 .. n -> Quantities] :
             orders = [i \in 1 .. n |-> NewOrder(i, "M", "Red", qt[i])]

\* add_order, lines 155-174: the row is prepared, the sheet is read and the
\* row is appended to the DataFrame
add_order_read ==
    /\ wPc["add_order"] = "idle"
    /\ \E sz \in {"M", ""}, q \in Quantities :
         df' = [df EXCEPT !["add_order"] =
                   Append(orders, NewOrder(NewId(orders), cell(sz), "Red", q))]
    /\ wPc' = [wPc EXCEPT !["add_order"] = "write"]
    /\ UNCHANGED << orders, upd >>
    /\ FileFrame

\* add_order, lines 177-178: the DataFrame replaces the sheet
add_order_write ==
    /\ wPc["add_order"] = "write"
    /\ orders' = df["add_order"]
    /\ wPc' = [wPc EXCEPT !["add_order"] = "done"]
    /\ UNCHANGED << df, upd >>
    /\ FileFrame

\* update_order_status, lines 223-231: the sheet is read and the rows of the
\* order are changed in the DataFrame
update_order_status_read ==
    /\ wPc["update_order_status"] = "idle"
    /\ \E i \in DOMAIN orders, st \in {"completed", "failed"} :
         /\ orders[i].status = "pending"
         /\ upd' = [order_id |-> orders[i].order_id, status |-> st]
         /\ df' = [df EXCEPT !["update_order_status"] =
                      update_order_status(orders, orders[i].order_id, st, << "note" >>)]
    /\ wPc' = [wPc EXCEPT !["update_order_status"] = "write"]
    /\ UNCHANGED orders
    /\ FileFrame

\* update_order_status, lines 234-235: the DataFrame replaces the sheet
update_order_status_write ==
    /\ wPc["update_order_status"] = "write"
    /\ orders' = df["update_order_status"]
    /\ wPc' = [wPc EXCEPT !["update_order_status"] = "done"]
    /\ UNCHANGED << df, upd >>
    /\ FileFrame

NextShared ==
    \/ add_order_read
    \/ add_order_write
    \/ update_order_status_read
    \/ update_order_status_write

SpecShared == InitShared /\ [][NextShared]_vars

(***************************************************************************)
(* Properties.                                                             *)
(***************************************************************************)
RowOf(id) == orders[CHOOSE i \in DOMAIN orders : orders[i].order_id = id]

IdAt(k) == pending_orders[k].order_id

\* the outcome of the k-th order of the batch has been written
Recorded(k) == k < idx \/ (k = idx /\ pc \in {"sleep", "close", "done"})

\* C1: when exactly one order k of a batch of N fails size resolution and
\* every other order gets its add-to-cart click, the run returns success N-1,
\* failed 1, total N, order k is failed and every other order is completed,
\* for every position k.
C1_BatchIsolation ==
    (pc \in {"close", "done"} /\ pending_orders # <<>>) =>
        LET N == Len(pending_orders)
        IN  \A k \in 1 .. N :
              (/\ hist[IdAt(k)] = {"size_fail"}
               /\ \A j \in (1 .. N) \ {k} : hist[IdAt(j)] = {"clicked"})
              => /\ results = [success |-> N - 1, failed |-> 1, total |-> N]
                 /\ RowOf(IdAt(k)).status = "failed"
                 /\ \A j \in (1 .. N) \ {k} : RowOf(IdAt(j)).status = "completed"

C1_Witness ==
    /\ pc = "done"
    /\ Len(pending_orders) >= 2
    /\ hist[IdAt(Len(pending_orders))] = {"size_fail"}
    /\ \A j \in 1 .. Len(pending_orders) - 1 : hist[IdAt(j)] = {"clicked"}
    /\ results.failed = 1

\* number of orders whose attempt is driving the bot's page
InFlight ==
    Cardinality({o \in OrderIds : immPc[o] = "page"}) + (IF sweepPc = "page" THEN 1 ELSE 0)

C3_ProcessingDuringAttempt ==
    pc \in AttemptPcs => RowOf(order.order_id).status = "processing"

\* C3 amended: a batch run never writes status processing; the status of an
\* order changes only when the outcome of its own attempt is recorded, and
\* then directly from pending to completed or failed.
C3_DirectTransition ==
    [][\A i \in DOMAIN orders :
          /\ orders'[i].status # "processing"
          /\ orders'[i].status # orders[i].status =>
                /\ pc = "update"
                /\ orders[i].order_id = order.order_id
                /\ orders[i].status = "pending"
                /\ orders'[i].status \in {"completed", "failed"}]_vars

C3_Witness ==
    /\ pc = "sleep"
    /\ idx = Len(pending_orders)
    /\ \A i \in DOMAIN orders : orders[i].status \in {"completed", "failed"}
    /\ Len(orders) >= 2

\* C4: after the browser crashed, the orders the batch had not started yet
\* are not marked failed (they keep status pending).
C4_CrashAborts ==
    page = "crashed" =>
        \A k \in 1 .. Len(pending_orders) :
            k > crashAt => RowOf(IdAt(k)).status = "pending"

\* C5: an order whose size selection fails has no other event (add-to-cart is
\* never tried, nothing is clicked), and once recorded it is failed with a
\* note that contains the requested size token.
C5_SizeHard ==
    \A k \in 1 .. Len(pending_orders) :
        "size_fail" \in hist[IdAt(k)] =>
            /\ hist[IdAt(k)] = {"size_fail"}
            /\ (k = idx /\ pc \in AttemptPcs \cup {"update"}) => att.cart = "-"
            /\ Recorded(k) =>
                 /\ RowOf(IdAt(k)).status = "failed"
                 /\ \E i \in DOMAIN RowOf(IdAt(k)).notes :
                        RowOf(IdAt(k)).notes[i] = pending_orders[k].size

C5_Witness ==
    /\ pc = "done"
    /\ \E k \in 1 .. Len(pending_orders) :
          /\ pending_orders[k].size = "M"
          /\ hist[IdAt(k)] = {"size_fail"}
          /\ RowOf(IdAt(k)).status = "failed"

\* C6: when color selection fails the attempt still goes through quantity
\* (for a quantity above 1) and add-to-cart, and the order is failed only if
\* add-to-cart failed.
C6_ColorSoft ==
    (pc \in {"update", "sleep"} /\ att.color = "fail") =>
        /\ att.cart \in {"ok", "fail"}
        /\ order.quantity > 1 => att.qty \in {"ok", "fail"}
        /\ ret.success <=> att.cart = "ok"
        /\ pc = "sleep" =>
              RowOf(order.order_id).status = (IF att.cart = "ok" THEN "completed" ELSE "failed")

C6_Witness ==
    /\ pc = "sleep"
    /\ order.color = "Red"
    /\ att.color = "fail"
    /\ order.quantity > 1
    /\ RowOf(order.order_id).status = "completed"

\* C7: an order with a size, a color and quantity 2, whose size control and
\* color swatch are found, whose add-to-cart button is clicked and whose
\* page shows a success message, is completed with the informational note.
C7_HappyPath ==
    (/\ pc \in {"update", "sleep"}
     /\ order.size = "M" /\ order.color = "Red" /\ order.quantity = 2
     /\ att.size = "ok" /\ att.color = "ok" /\ att.cart = "ok" /\ att.tier = "explicit")
    => /\ ret.success
       /\ pc = "sleep" =>
             /\ RowOf(order.order_id).status = "completed"
             /\ RowOf(order.order_id).notes = NoteCompleted
             /\ RowOf(order.order_id).notes[1] # "Erreur: "

C7_Witness ==
    /\ pc = "sleep"
    /\ order.size = "M" /\ order.color = "Red" /\ order.quantity = 2
    /\ att.size = "ok" /\ att.color = "ok" /\ att.qty = "ok" /\ att.cart = "ok"
    /\ att.tier = "explicit"
    /\ RowOf(order.order_id).notes = NoteCompleted

\* a visible, enabled element that carries the requested token
EnabledEl(e) == e.present /\ e.txt /\ e.attr = "none" /\ ~e.cls

Candidates(op) ==
    CASE op = "size" -> Len(size_selectors)
      [] op = "color" -> Len(color_selectors)
      [] op = "cart" -> Len(add_to_cart_selectors)

\* C8: in the size, color and add-to-cart chains the candidates are tried in
\* declared order, and when exactly the k-th candidate holds a visible,
\* enabled, clickable element, that element is the only one clicked.
C8_KthCandidate ==
    (res # NoProbe /\ probe.op \in {"size", "color", "cart"}) =>
        /\ \A j \in 1 .. Len(res.tried) : res.tried[j] = j
        /\ \A k \in 1 .. Candidates(probe.op) :
              (/\ EnabledEl(probe.fx[k]) /\ probe.fx[k].acc >= 1
               /\ \A j \in DOMAIN probe.fx \ {k} : ~EnabledEl(probe.fx[j]))
              => res.ok /\ res.clicks = << k >>

\* present, and disabled by the attribute or by the class
DisabledEl(e) == e.present /\ (e.attr # "none" \/ e.cls)

\* C9: in the size and add-to-cart chains, when every element of the page is
\* present but disabled, the chain reports not-found and clicks nothing.
C9_AllDisabled ==
    (/\ res # NoProbe /\ probe.op \in {"size", "cart"}
     /\ \A i \in DOMAIN probe.fx : DisabledEl(probe.fx[i]))
    => ~res.ok /\ res.clicks = <<>>

\* C10: _click_add_to_cart never clicks an element that carries the disabled
\* attribute, and when every add-to-cart element carries it the order is
\* recorded failed with the add-to-cart failure note.
C10_NoDisabledClick ==
    (pc \in {"confirm", "update", "sleep"} /\ att.cart # "-") =>
        /\ ~att.clickedDisabled
        /\ att.allDisabled => att.cart = "fail"
        /\ (att.allDisabled /\ pc = "sleep") =>
              /\ RowOf(order.order_id).status = "failed"
              /\ RowOf(order.order_id).notes = NoteFailed(MsgCart)

\* the order of the for loop is being attempted or its outcome is being recorded
InAttempt == pc \in AttemptPcs \cup {"update", "sleep"}

\* C11: once the add-to-cart click succeeded the confirmation answers by the
\* explicit indicator, the modal or the default rule, the attempt returns
\* success in all three cases and the order is recorded completed.
C11_ConfirmTiers ==
    (pc \in {"update", "sleep"} /\ att.cart = "ok") =>
        /\ att.tier \in {"explicit", "modal", "default"}
        /\ ret = [success |-> TRUE, message |-> MsgSuccess]
        /\ pc = "sleep" => RowOf(order.order_id).status = "completed"

C11_Witness ==
    /\ pc = "sleep"
    /\ page = "open"
    /\ att.cart = "ok"
    /\ att.tier = "default"
    /\ RowOf(order.order_id).status = "completed"

NoInteraction ==
    att.size = "-" /\ att.color = "-" /\ att.qty = "-" /\ att.cart = "-" /\ att.tier = "-"

\* C12 as stated: when no page-validity indicator matched, the attempt has
\* already returned the invalid-page failure and touched nothing else.
C12_NoIndicatorFails ==
    (InAttempt /\ att.valid \in {"url", "fail"}) =>
        /\ pc \in {"update", "sleep"}
        /\ ret = [success |-> FALSE, message |-> MsgInvalid]
        /\ NoInteraction

\* C12 amended: when no indicator matched and the URL contains neither
\* '/item' nor '/product', the attempt returns the invalid-page failure at
\* once, no size, color, quantity or add-to-cart step runs, and the order is
\* recorded failed with the invalid-page note.
C12_InvalidPage ==
    (InAttempt /\ att.valid = "fail") =>
        /\ pc \in {"update", "sleep"}
        /\ ret = [success |-> FALSE, message |-> MsgInvalid]
        /\ NoInteraction
        /\ hist[order.order_id] = {"invalid"}
        /\ pc = "sleep" =>
              /\ RowOf(order.order_id).status = "failed"
              /\ RowOf(order.order_id).notes = NoteFailed(MsgInvalid)

C12_Witness ==
    /\ pc = "sleep"
    /\ page = "open"
    /\ att.valid = "fail"
    /\ RowOf(order.order_id).notes = NoteFailed(MsgInvalid)

\* C13: an order whose navigation raised has no other event and no page
\* interaction, is recorded failed with a note carrying the error, and the
\* run goes on to attempt the next order.
C13_NavigationFailure ==
    \A k \in 1 .. Len(pending_orders) :
        "nav_fail" \in hist[IdAt(k)] =>
            /\ hist[IdAt(k)] = {"nav_fail"}
            /\ (k = idx /\ InAttempt) => (att.valid = "-" /\ NoInteraction)
            /\ Recorded(k) =>
                 /\ RowOf(IdAt(k)).status = "failed"
                 /\ \E e \in {"TimeoutError", "TargetClosedError"} :
                        RowOf(IdAt(k)).notes = NoteFailed(MsgError(e))
            /\ (k < Len(pending_orders) /\ pc \in {"close", "done"}) => tries[IdAt(k + 1)] = 1

C13_Witness ==
    /\ pc = "done"
    /\ Len(pending_orders) >= 2
    /\ RowOf(IdAt(1)).notes = NoteFailed(MsgError("TimeoutError"))
    /\ RowOf(IdAt(2)).status = "completed"

\* C14: during the attempt of an order of quantity 1 or less the quantity
\* step never runs: no quantity input or increment control is looked up.
C14_QuantityOneNoop ==
    (InAttempt /\ order.quantity <= 1) => att.qty = "-"

C14_Witness ==
    /\ pc = "sleep"
    /\ order.quantity = 1
    /\ att.cart = "ok"
    /\ att.qty = "-"

\* C15: when no quantity input is on the page and _set_quantity(n) reports
\* the quantity set, the increment controls were clicked n-1 times in total.
C15_IncrementCount ==
    (/\ res # NoProbe /\ probe.op = "quantity"
     /\ ~AnyPresent(probe.fx)
     /\ res.ok)
    => res.plus = probe.quantity - 1

\* C16: in a batch run one inter-order delay has elapsed for every order
\* finished, after a failure as after a success: when the navigation of order
\* idx starts, idx - 1 delays have elapsed, and at the return at least N - 1.
C16_InterOrderDelay ==
    pending_orders # <<>> =>
        /\ InAttempt => delays = idx - 1
        /\ pc \in {"close", "done"} =>
              (delays >= Len(pending_orders) - 1 /\ delays = Len(pending_orders))

C16_Witness ==
    /\ pc = "goto"
    /\ idx = 2
    /\ delays = 1
    /\ RowOf(IdAt(1)).status = "failed"

\* C17: at the return of a non-empty batch total is the number of orders
\* fetched and success + failed = total; during the run success + failed is
\* the number of orders whose outcome has been recorded.
C17_CountsAddUp ==
    pending_orders # <<>> =>
        /\ results.total = Len(pending_orders)
        /\ InAttempt => results.success + results.failed = (IF pc = "sleep" THEN idx ELSE idx - 1)
        /\ pc \in {"close", "done"} => results.success + results.failed = results.total

C17_Witness ==
    /\ pc = "close"
    /\ results = [success |-> 1, failed |-> 1, total |-> 2]

\* C19: within a batch run add_product_to_cart is called at most once per
\* order, exactly once for every fetched order by the return, and never for
\* an order that was not fetched; no order is fetched twice.
C19_AttemptedOnce ==
    /\ \A o \in OrderIds : tries[o] <= 1
    /\ \A j, k \in 1 .. Len(pending_orders) : IdAt(j) = IdAt(k) => j = k
    /\ \A o \in OrderIds :
          tries[o] = 1 => \E k \in 1 .. Len(pending_orders) : IdAt(k) = o /\ k <= idx
    /\ (pc \in {"close", "done"} /\ pending_orders # <<>>) =>
          \A k \in 1 .. Len(pending_orders) : tries[IdAt(k)] = 1

C19_Witness ==
    /\ pc = "done"
    /\ Len(pending_orders) >= 2
    /\ RowOf(IdAt(1)).status = "failed"
    /\ \A k \in 1 .. Len(pending_orders) : tries[IdAt(k)] = 1

\* C18: when no row has status pending, process_pending_orders returns
\* success 0, failed 0, total 0: the fetch goes straight to the return, no
\* navigation is made and no order row is changed by the run.
C18_NothingPending ==
    [][/\ (pc = "fetch" /\ pc' # "fetch" /\ get_all_orders(orders, "pending") = <<>>) =>
             /\ results' = NoResults
             /\ pc' = "close"
             /\ orders' = orders
             /\ \A o \in OrderIds : tries'[o] = 0
       /\ (pc = "close" /\ pc' # "close" /\ pending_orders = <<>>) =>
             /\ results' = NoResults
             /\ pc' = "done"
             /\ orders' = orders
             /\ \A o \in OrderIds : tries'[o] = 0]_vars

\* a second run over a sheet whose rows are all failed or completed
C18_Witness ==
    /\ runs = 2
    /\ pc = "done"
    /\ orders # <<>>
    /\ \A i \in DOMAIN orders : orders[i].status \in {"failed", "completed"}
    /\ pending_orders = <<>>
    /\ results = NoResults
    /\ \A o \in OrderIds : tries[o] = 0

\* C20: a batch run selects and attempts only rows whose status is pending,
\* so a failed or completed row is left out of every later run; such a row
\* becomes pending again only in a step that is not a step of the batch
\* processor.
C20_NotReselected ==
    [][/\ (pc = "fetch" /\ pc' # "fetch") =>
             \A k \in DOMAIN pending_orders' : RowOf(pending_orders'[k].order_id).status = "pending"
       /\ \A o \in OrderIds :
             tries'[o] > tries[o] => RowOf(o).status = "pending"
       /\ \A i \in DOMAIN orders :
             (orders[i].status \in {"failed", "completed"} /\ orders'[i].status # orders[i].status) =>
                 /\ orders'[i].status = "pending"
                 /\ UNCHANGED << page, pc, pending_orders, idx, results, ret, att, countVars >>]_vars

\* a later run that leaves a failed row out and takes a row set back to pending
C20_Witness ==
    /\ runs = 2
    /\ pc = "goto"
    /\ Len(pending_orders) < Len(orders)
    /\ \E i \in DOMAIN orders :
          /\ orders[i].status = "failed"
          /\ \A k \in DOMAIN pending_orders : IdAt(k) # orders[i].order_id
    /\ pending_orders[idx].notes # <<>>

\* C21: when the cookie file does not exist, _load_cookies adds no cookie to
\* the context and takes its warning branch, not its error branch, and the
\* initialisation that follows is not failed by it: once the page is created
\* initialize_browser has returned True.
C21_AbsentFileLoad ==
    /\ [][(sPc = "load" /\ sPc' \notin {"load", "crashed"} /\ ~cookieFile.exists) =>
             /\ jar' = {}
             /\ loaded' = "absent"
             /\ sPc' = "newpage"]_vars
    /\ []((loaded = "absent" /\ bpage) => (exitPath # "initfail" /\ (sPc = "login" => jar = {})))

C21_Witness ==
    /\ sPc = "login"
    /\ loaded = "absent"
    /\ bpage
    /\ jar = {}
    /\ ~cookieFile.exists

\* C22: when the process has died, at whatever point of the save, the cookie
\* file on disk is a complete JSON text (or there is no file).
C22_AtomicSave ==
    sPc = "crashed" => (~cookieFile.exists \/ json_load(cookieFile.text).ok)

\* C23: after a save that wrote its whole text, the next load puts exactly
\* the saved cookies (name, value, domain) into the new context, also when
\* the save created the file.
C23_RoundTrip ==
    (sPc = "newpage" /\ lastSaved.ok) => (loaded = "ok" /\ jar = lastSaved.set)

C23_Witness ==
    /\ sPc = "newpage"
    /\ sRun = 2
    /\ lastSaved.ok
    /\ lastSaved.fresh
    /\ Cardinality(lastSaved.set) = 2
    /\ jar = lastSaved.set

\* C24: a run ends only through close(); close() attempts the save whenever
\* a context exists and then closes the browser, so at the end of the run the
\* browser is not open, whatever the exit path and whatever became of the
\* save; the cookie file is written by the save of close() only.
C24_CloseAlways ==
    /\ [](sPc = "done" => (browser # "open" /\ exitPath # "-"))
    /\ [][(sPc' = "done" /\ sPc # "done") => sPc = "bclose"]_vars
    /\ [][(sPc = "closing" /\ sPc' \notin {"closing", "crashed"}) =>
             sPc' = (IF context THEN "save" ELSE "bclose")]_vars
    /\ [][cookieFile' # cookieFile => sPc \in {"save", "write"}]_vars

\* a first run whose initialisation failed after the launch and whose save
\* then failed part-way: the browser is closed all the same
C24_Witness ==
    /\ sRun = 1
    /\ sPc = "done"
    /\ exitPath = "initfail"
    /\ browser = "closed"
    /\ cookieFile.exists
    /\ ~json_load(cookieFile.text).ok

\* C25: the page is created, and the first navigation issued, only after
\* _load_cookies has run; the cookies of a readable cookie file are in the
\* context when the page is created.
C25_CookiesBeforePage ==
    [][/\ (bpage' /\ ~bpage) =>
             /\ loaded # "-"
             /\ (cookieFile.exists /\ json_load(cookieFile.text).ok) =>
                   jar = {json_load(cookieFile.text).value[i] :
                             i \in DOMAIN json_load(cookieFile.text).value}
       /\ (logged' # NoLogin /\ logged = NoLogin) => (bpage /\ loaded # "-")]_vars

C25_Witness ==
    /\ sPc = "login"
    /\ bpage
    /\ loaded = "ok"
    /\ Cardinality(jar) = 2
    /\ logged = NoLogin

\* C26: check_login_status returns True only when an indicator was found and
\* the current URL is not a login path; with no indicator, on a login path or
\* on an error it returns False.
C26_LoginStrict ==
    logged.ret = "true" <=> (logged # NoLogin /\ logged.found /\ ~logged.loginUrl /\ ~logged.err)

\* C27: a step of a batch run neither adds nor deletes a row, changes no
\* field other than status, processed_at and notes, and changes only rows of
\* orders that were pending when the run fetched them.
C27_BatchFrame ==
    [][pc # "done" =>
          /\ Len(orders') = Len(orders)
          /\ \A i \in DOMAIN orders :
                /\ [orders'[i] EXCEPT !.status = "", !.processed_at = "", !.notes = <<>>]
                      = [orders[i] EXCEPT !.status = "", !.processed_at = "", !.notes = <<>>]
                /\ orders'[i] # orders[i] =>
                      \E k \in DOMAIN pending_orders :
                         /\ pending_orders[k].order_id = orders[i].order_id
                         /\ pending_orders[k].status = "pending"]_vars

\* a second run has written the outcome of a requeued order while another row,
\* completed in the first run, stays as it was
C27_Witness ==
    /\ runs = 2
    /\ pc = "sleep"
    /\ Len(orders) = 2
    /\ Len(pending_orders) = 1
    /\ RowOf(IdAt(1)).status = "failed"
    /\ \E i \in DOMAIN orders :
          /\ orders[i].order_id # IdAt(1)
          /\ orders[i].status = "completed"
          /\ orders[i].notes = NoteCompleted

\* C30: when the batch run returns, every fetched order has left pending and
\* the stored statuses agree with the counts: as many completed rows as
\* successes, as many failed rows as failures.
C30_StoredAsCounted ==
    (pc \in {"close", "done"} /\ pending_orders # <<>>) =>
        LET K == DOMAIN pending_orders
        IN  /\ \A k \in K : RowOf(IdAt(k)).status \in {"completed", "failed"}
            /\ Cardinality({k \in K : RowOf(IdAt(k)).status = "completed"}) = results.success
            /\ Cardinality({k \in K : RowOf(IdAt(k)).status = "failed"}) = results.failed

C29_StorefrontOnly ==
    /\ \A i \in DOMAIN sheet : IsStorefront(sheet[i].product_url)
    /\ \A u \in navigated : IsStorefront(u)

C35_FailedHasNote ==
    \A i \in 1 .. Len(orders) : orders[i].status = "failed" => orders[i].notes # <<>>

\* the element of slot k is matched by the k-th declared size candidate
SizeMatched(fx, k) ==
    /\ k \in 1 .. Len(size_selectors)
    /\ wait_for_selector(fx[k], size_selectors[k].notCls, size_selectors[k].notAttr)

\* C33: _select_size clicks only an element matched by one of the declared
\* size candidates; when no declared candidate matches, it clicks nothing and
\* reports not-found.
C33_DeclaredSizeOnly ==
    (res # NoProbe /\ probe.op = "size") =>
        /\ \A j \in 1 .. Len(res.clicks) : SizeMatched(probe.fx, res.clicks[j])
        /\ (\A k \in 1 .. Len(size_selectors) : ~SizeMatched(probe.fx, k))
              => ~res.ok /\ res.clicks = <<>>

\* the page of the current attempt was accepted as a product page
Validated == att.valid \in {"indicator", "url"}

\* C34: in a batch run the steps of an attempt happen in this order:
\* navigation, page validation, size selection (for an order with a size),
\* add-to-cart click; and an order is set to completed only by the record of
\* its own attempt, in which all of them succeeded.
C34_StepsBeforeCompleted ==
    [][/\ (att.valid = "-" /\ att'.valid # "-") => att.nav = "ok"
       /\ (att.size = "-" /\ att'.size # "-") => att.nav = "ok" /\ Validated
       /\ (att.cart = "-" /\ att'.cart # "-") =>
             /\ att.nav = "ok" /\ Validated
             /\ order.size = "M" => att.size = "ok"
       /\ \A i \in DOMAIN orders :
             (orders'[i].status = "completed" /\ orders[i].status # "completed") =>
                /\ pc = "update"
                /\ orders[i].order_id = order.order_id
                /\ att.nav = "ok" /\ Validated
                /\ order.size = "M" => att.size = "ok"
                /\ att.cart = "ok" /\ "clicked" \in hist[order.order_id]]_vars

\* the second order of a batch, with a size, has just been set to completed
C34_Witness ==
    /\ pc = "sleep"
    /\ idx = 2
    /\ order.size = "M"
    /\ att.size = "ok"
    /\ RowOf(order.order_id).status = "completed"

\* C36: for an order added without a size (None or the empty text) and read
\* back from the sheet, the attempt of the batch run performs no size
\* selection, so a missing size never fails the order.
C36_NoSizeNoSelection ==
    (InAttempt /\ order.size \in {cell(None), cell("")}) =>
        /\ att.size = "-"
        /\ "size_fail" \notin hist[order.order_id]

\* C37: an order with quantity n > 1 is recorded completed only if
\* _set_quantity set the quantity during its attempt (n typed into the input,
\* or the increment clicked n-1 times).
C37_QuantitySet ==
    (/\ pc = "sleep"
     /\ order.quantity > 1
     /\ RowOf(order.order_id).status = "completed")
    => att.qty = "ok"

\* position of an order in the sheet
StorePos(id) == CHOOSE i \in DOMAIN orders : orders[i].order_id = id

\* C38: the orders of a batch are attempted one after another in store order:
\* while an order is being attempted, every earlier order of the batch has its
\* final status written and no later order has been navigated to.
C38_OneAfterAnother ==
    /\ \A j, k \in 1 .. Len(pending_orders) :
          j < k => StorePos(IdAt(j)) < StorePos(IdAt(k))
    /\ pc \in AttemptPcs =>
          /\ \A k \in 1 .. idx - 1 :
                /\ RowOf(IdAt(k)).status \in {"completed", "failed"}
                /\ RowOf(IdAt(k)).processed_at # ""
                /\ tries[IdAt(k)] = 1
          /\ \A k \in idx + 1 .. Len(pending_orders) :
                /\ RowOf(IdAt(k)).status = "pending"
                /\ tries[IdAt(k)] = 0

\* the second order of the batch is being navigated to after the first failed
C38_Witness ==
    /\ pc = "validate"
    /\ idx = 2
    /\ RowOf(IdAt(1)).status = "failed"
    /\ tries[IdAt(2)] = 1

\* C40: a batch run terminates: once the pending orders are about to be
\* fetched, process_pending_orders eventually returns, having attempted every
\* fetched order once and counted it as a success or a failure, however many
\* of them fail.
C40_BatchTerminates ==
    (pc = "fetch") ~>
        (/\ pc \in {"close", "done"}
         /\ \A k \in 1 .. Len(pending_orders) : tries[IdAt(k)] = 1
         /\ results.total = Len(pending_orders)
         /\ results.success + results.failed = results.total)

\* a run over two orders has returned after both of them failed
C40_Witness ==
    /\ pc = "done"
    /\ Len(pending_orders) = 2
    /\ results = [success |-> 0, failed |-> 2, total |-> 2]

\* C39: while the orchestrator is running, every order that is pending is
\* eventually attempted by the sweep on the bot's page and leaves the pending
\* state.
C39_SweepDrains ==
    \A o \in OrderIds :
        (o \in DOMAIN orders /\ orders[o].status = "pending")
            ~> ~(o \in DOMAIN orders /\ orders[o].status = "pending")

\* the row add_order appended to its DataFrame
AddedRow == df["add_order"][Len(df["add_order"])]

\* C32: when add_order and update_order_status of another order overlap on
\* the orders file, both writes survive: once both have returned, the sheet
\* holds the added row and the updated order has the status that was written.
C32_BothWritesSurvive ==
    (/\ wPc["add_order"] = "done" /\ wPc["update_order_status"] = "done"
     /\ upd.order_id # AddedRow.order_id) =>
        /\ \E i \in DOMAIN orders : orders[i] = AddedRow
        /\ \E i \in DOMAIN orders :
              orders[i].order_id = upd.order_id /\ orders[i].status = upd.status

====
